---- MODULE Spec2Model ----
(***************************************************************************)
(* Event normalization and consolidation pipeline of Glance-CRON.          *)
(*                                                                         *)
(* Strings whose characters the code inspects (numerals, clock times, room *)
(* codes, resource names) are sequences of one-character strings; strings  *)
(* the code only compares for equality are TLA+ strings.  Integers beyond  *)
(* 32 bits (the Event id) are little-endian sequences of decimal digits    *)
(* without high zeros.                                                     *)
(***************************************************************************)
EXTENDS Integers, Sequences, FiniteSets, TLC

VARIABLES
    idArgs,      \* generateDeterministicId: the (itemId, itemId2, subjectItemId) argument triple
    idResult,    \* generateDeterministicId: the returned id (0 before the call)
    idEarlier,   \* generateDeterministicId: None, or Some(arguments and id of an earlier call)
    taskEvent,   \* createRecordingTasks: the Event argument
    taskResource,\* createRecordingTasks: the resource argument
    taskResult,  \* createRecordingTasks: the returned task list
    rawData,     \* the acquisition step's value: None or Some(list of raw items)
    run,         \* the locals and the outcome of the pipeline run
    stageInput,  \* the argument of the function under study (the events of a stage, the data of an extractor)
    stageOutput, \* what the function under study returns
    stageAgain,  \* what the function returns when it is run a second time
    table,       \* the rows of the events table
    save,        \* saveToSupabase: the arguments, the locals and the position of the call (of each call, when two runs overlap)
    browser,     \* the module variable browser of the scraper and the Chromium instances launched
    fetch,       \* fetchData: the position of the call, the error in flight and what it returned
    now,         \* the wall clock read by new Date().toISOString()
    pc           \* "ready" before the function under study is called, then the name of the last call

idVars == <<idArgs, idResult, idEarlier>>
taskVars == <<taskEvent, taskResource, taskResult>>
pipeVars == <<rawData, run>>
stageVars == <<stageInput, stageOutput, stageAgain>>
saveVars == <<table, save>>
fetchVars == <<browser, fetch>>
vars == <<idVars, taskVars, pipeVars, stageVars, saveVars, fetchVars, now, pc>>

\* The values the variables of the other components rest at.
IdIdle == idArgs = <<0, 0, 0>> /\ idResult = <<>> /\ idEarlier = <<>>
TaskIdle == taskEvent = <<>> /\ taskResource = <<>> /\ taskResult = <<>>
PipeIdle == rawData = <<>> /\ run = <<>>
StageIdle == stageInput = <<>> /\ stageOutput = <<>> /\ stageAgain = <<>>
SaveIdle == table = {} /\ save = <<>>
FetchIdle == browser = <<>> /\ fetch = <<>>

(***************************************************************************)
(* JavaScript string primitives used by the sources.                       *)
(***************************************************************************)

DigitChars == <<"0", "1", "2", "3", "4", "5", "6", "7", "8", "9">>

IsDigit(c) == \E d \in 1..10 : DigitChars[d] = c

DigitValue(c) == (CHOOSE d \in 1..10 : DigitChars[d] = c) - 1

\* Number.prototype.toString() of a non-negative integer.
RECURSIVE NumToString(_)
NumToString(n) ==
    IF n < 10 THEN <<DigitChars[n + 1]>>
    ELSE NumToString(n \div 10) \o <<DigitChars[(n % 10) + 1]>>

\* String.prototype.padStart(targetLength, padChar).
RECURSIVE PadStart(_, _, _)
PadStart(s, targetLength, padChar) ==
    IF Len(s) >= targetLength THEN s
    ELSE PadStart(<<padChar>> \o s, targetLength, padChar)

\* String.prototype.slice(-k): the last k characters (the whole string when shorter).
SliceLast(s, k) ==
    IF Len(s) <= k THEN s ELSE SubSeq(s, Len(s) - k + 1, Len(s))

\* The longest prefix of s made of decimal digits.
RECURSIVE DigitPrefix(_)
DigitPrefix(s) ==
    IF s = <<>> \/ ~IsDigit(Head(s)) THEN <<>>
    ELSE <<Head(s)>> \o DigitPrefix(Tail(s))

RECURSIVE DigitsToNum(_, _)
DigitsToNum(s, acc) ==
    IF s = <<>> THEN acc ELSE DigitsToNum(Tail(s), acc * 10 + DigitValue(Head(s)))

\* The not-a-number result of parseInt and Number, told apart from every number
\* these return (none is negative).
NaN == -1

\* A missing number (null), told apart from every number and from NaN.
NullNumber == -2

\* parseInt(s) on a string without sign or leading blanks: the value of its
\* leading decimal digits, NaN when it has none.
ParseInt(s) ==
    IF DigitPrefix(s) = <<>> THEN NaN ELSE DigitsToNum(DigitPrefix(s), 0)

\* The printable ASCII characters, in code order from 32 (the quote
\* characters and the backslash are spelled out).
Ascii ==
    <<" ", "!", "dquote", "#", "$", "%", "&", "squote", "(", ")", "*", "+", ",", "-", ".", "/">> \o
    <<"0", "1", "2", "3", "4", "5", "6", "7", "8", "9", ":", ";", "<", "=", ">", "?">> \o
    <<"@", "A", "B", "C", "D", "E", "F", "G", "H", "I", "J", "K", "L", "M", "N", "O">> \o
    <<"P", "Q", "R", "S", "T", "U", "V", "W", "X", "Y", "Z", "[", "bslash", "]", "^", "_">> \o
    <<"bquote", "a", "b", "c", "d", "e", "f", "g", "h", "i", "j", "k", "l", "m", "n", "o">> \o
    <<"p", "q", "r", "s", "t", "u", "v", "w", "x", "y", "z", "{", "|", "}", "~">>

CharCode(c) == 31 + (CHOOSE p \in 1..Len(Ascii) : Ascii[p] = c)

\* String.prototype.toUpperCase() on ASCII.
UpperChar(c) ==
    IF CharCode(c) >= 97 /\ CharCode(c) <= 122 THEN Ascii[CharCode(c) - 32 - 31] ELSE c

ToUpperCase(s) == [p \in 1..Len(s) |-> UpperChar(s[p])]

\* String.prototype.toLowerCase() on ASCII.
LowerChar(c) ==
    IF CharCode(c) >= 65 /\ CharCode(c) <= 90 THEN Ascii[CharCode(c) + 32 - 31] ELSE c

ToLowerCase(s) == [p \in 1..Len(s) |-> LowerChar(s[p])]

\* String.prototype.startsWith(prefix).
StartsWith(s, prefix) ==
    Len(s) >= Len(prefix) /\ SubSeq(s, 1, Len(prefix)) = prefix

\* String.prototype.includes(part).
Includes(s, part) ==
    \E p \in 1..(Len(s) - Len(part) + 1) : SubSeq(s, p, p + Len(part) - 1) = part

\* s.split(sep) for a separator of one character: the pieces between separators.
RECURSIVE SplitFrom(_, _, _)
SplitFrom(s, sep, piece) ==
    IF s = <<>> THEN <<piece>>
    ELSE IF Head(s) = sep THEN <<piece>> \o SplitFrom(Tail(s), sep, <<>>)
    ELSE SplitFrom(Tail(s), sep, Append(piece, Head(s)))

Split(s, sep) == SplitFrom(s, sep, <<>>)

\* Number(s) on a string of digits and letters without sign, blank, point or
\* exponent: 0 for the empty string, the decimal value of an all-digit string,
\* NaN otherwise.
Number(s) ==
    IF \A p \in 1..Len(s) : IsDigit(s[p]) THEN DigitsToNum(s, 0) ELSE NaN

\* Joins the pieces with sep between them.
RECURSIVE Join(_, _)
Join(pieces, sep) ==
    IF pieces = <<>> THEN <<>>
    ELSE IF Len(pieces) = 1 THEN pieces[1]
    ELSE pieces[1] \o sep \o Join(Tail(pieces), sep)

(***************************************************************************)
(* Exact non-negative integer arithmetic on little-endian digit sequences  *)
(* (JavaScript numbers are exact below 2^53; the ids stay below 10^16).    *)
(***************************************************************************)

RECURSIVE BigTrim(_)
BigTrim(x) ==
    IF x # <<>> /\ x[Len(x)] = 0 THEN BigTrim(SubSeq(x, 1, Len(x) - 1)) ELSE x

RECURSIVE BigOfNat(_)
BigOfNat(n) == IF n = 0 THEN <<>> ELSE <<n % 10>> \o BigOfNat(n \div 10)

\* x * 10^k
RECURSIVE BigShift(_, _)
BigShift(x, k) ==
    IF x = <<>> \/ k = 0 THEN x ELSE BigShift(<<0>> \o x, k - 1)

RECURSIVE BigAddCarry(_, _, _)
BigAddCarry(x, y, carry) ==
    IF x = <<>> /\ y = <<>>
    THEN (IF carry = 0 THEN <<>> ELSE <<carry>>)
    ELSE LET dx == IF x = <<>> THEN 0 ELSE Head(x)
             dy == IF y = <<>> THEN 0 ELSE Head(y)
             s  == dx + dy + carry
         IN  <<s % 10>> \o BigAddCarry(IF x = <<>> THEN x ELSE Tail(x),
                                       IF y = <<>> THEN y ELSE Tail(y),
                                       s \div 10)

BigAdd(x, y) == BigTrim(BigAddCarry(x, y, 0))

\* x < y, comparing from the most significant digit.
RECURSIVE BigLess(_, _)
BigLess(x, y) ==
    IF Len(x) # Len(y) THEN Len(x) < Len(y)
    ELSE IF x = <<>> THEN FALSE
    ELSE IF x[Len(x)] # y[Len(y)] THEN x[Len(x)] < y[Len(y)]
    ELSE BigLess(SubSeq(x, 1, Len(x) - 1), SubSeq(y, 1, Len(y) - 1))

BigLeq(x, y) == x = y \/ BigLess(x, y)

(***************************************************************************)
(* Identity Generator.                                                     *)
(***************************************************************************)

\* A variant that keeps the whole padded numeral of each argument.
generateDeterministicIdUnsliced(itemId, itemId2, subjectItemId) ==
    LET itemIdStr        == PadStart(NumToString(itemId), 10, "0")
        itemId2Str       == PadStart(NumToString(itemId2), 10, "0")
        subjectItemIdStr == PadStart(NumToString(subjectItemId), 5, "0")
        itemIdPart  == ParseInt(itemIdStr)
        itemId2Part == ParseInt(itemId2Str)
        subjectPart == ParseInt(subjectItemIdStr)
    IN  BigAdd(BigAdd(BigShift(BigOfNat(itemIdPart), 9),
                      BigShift(BigOfNat(itemId2Part), 4)),
               BigOfNat(subjectPart))

\* A variant that keeps five digits of itemId2 instead of six.
generateDeterministicIdShort(itemId, itemId2, subjectItemId) ==
    LET itemIdStr        == PadStart(NumToString(itemId), 10, "0")
        itemId2Str       == PadStart(NumToString(itemId2), 10, "0")
        subjectItemIdStr == PadStart(NumToString(subjectItemId), 5, "0")
        itemIdPart  == ParseInt(SliceLast(itemIdStr, 6))
        itemId2Part == ParseInt(SliceLast(itemId2Str, 5))
        subjectPart == ParseInt(SliceLast(subjectItemIdStr, 5))
    IN  BigAdd(BigAdd(BigShift(BigOfNat(itemIdPart), 9),
                      BigShift(BigOfNat(itemId2Part), 4)),
               BigOfNat(subjectPart))

generateDeterministicId(itemId, itemId2, subjectItemId) ==
    LET itemIdStr        == PadStart(NumToString(itemId), 10, "0")
        itemId2Str       == PadStart(NumToString(itemId2), 10, "0")
        subjectItemIdStr == PadStart(NumToString(subjectItemId), 5, "0")
        itemIdPart  == ParseInt(SliceLast(itemIdStr, 6))
        itemId2Part == ParseInt(SliceLast(itemId2Str, 6))
        subjectPart == ParseInt(SliceLast(subjectItemIdStr, 5))
    IN  BigAdd(BigAdd(BigShift(BigOfNat(itemIdPart), 9),
                      BigShift(BigOfNat(itemId2Part), 4)),
               BigOfNat(subjectPart))

\* Argument values: short numerals, numerals of exactly and of more than the
\* kept width, and the largest 32-bit value.
IdArgValues == {0, 7, 10000, 99999, 100000, 999999, 1000000, 1234567, 2147483647}

InitId ==
    /\ idArgs \in IdArgValues \X IdArgValues \X IdArgValues
    /\ idResult = <<>>
    /\ idEarlier = <<>>
    /\ TaskIdle
    /\ PipeIdle
    /\ StageIdle
    /\ now = <<>>
    /\ SaveIdle
    /\ FetchIdle
    /\ pc = "ready"

GenerateId ==
    /\ pc = "ready"
    /\ pc' = "generateDeterministicId"
    /\ idResult' = generateDeterministicId(idArgs[1], idArgs[2], idArgs[3])
    /\ UNCHANGED <<fetchVars, idArgs, idEarlier, taskVars, pipeVars, stageVars, saveVars, now>>

NextId == GenerateId

SpecId == InitId /\ [][NextId]_vars

(***************************************************************************)
(* Claims about the Identity Generator, checked under SpecId.              *)
(***************************************************************************)

\* itemIdPart * 1_000_000_000 + itemId2Part * 10_000 + subjectPart
IdOfParts(itemIdPart, itemId2Part, subjectPart) ==
    BigAdd(BigAdd(BigShift(BigOfNat(itemIdPart), 9),
                  BigShift(BigOfNat(itemId2Part), 4)),
           BigOfNat(subjectPart))

\* C1: the id returned for (itemId, itemId2, subjectItemId) is
\* (itemId mod 10^6) * 10^9 + (itemId2 mod 10^6) * 10^4 + (subjectItemId mod 10^5),
\* a function of the argument triple alone.
C1_IdIsFormulaOfTriple ==
    pc = "generateDeterministicId" =>
        idResult = IdOfParts(idArgs[1] % 1000000, idArgs[2] % 1000000,
                             idArgs[3] % 100000)

\* An id computed from arguments whose high digits are all discarded.
C1_Witness ==
    /\ pc = "generateDeterministicId"
    /\ idArgs = <<1234567, 2147483647, 100000>>
    /\ idResult = IdOfParts(234567, 483647, 0)

\* 999999 * 10^9 + 999999 * 10^4 + 99999
LargestId == IdOfParts(999999, 999999, 99999)

\* 2^63 = 9223372036854775808, least significant digit first.
TwoPow63 == <<8, 0, 8, 5, 7, 7, 4, 5, 8, 6, 3, 0, 2, 7, 3, 3, 2, 2, 9>>

\* C2: the returned id is a non-negative integer, at most
\* 999999 * 10^9 + 999999 * 10^4 + 99999, which is below 2^63.
C2_IdFitsInt64 ==
    pc = "generateDeterministicId" =>
        /\ \A p \in 1..Len(idResult) : idResult[p] \in 0..9
        /\ BigLeq(idResult, LargestId)
        /\ BigLess(idResult, TwoPow63)

\* The largest id is produced.
C2_Witness ==
    /\ pc = "generateDeterministicId"
    /\ idArgs = <<999999, 999999, 99999>>
    /\ idResult = LargestId
    /\ idResult = <<9, 9, 9, 9, 8, 0, 0, 0, 0, 9, 0, 0, 0, 0, 0, 1>>

(***************************************************************************)
(* Recording-Task Deriver.                                                 *)
(***************************************************************************)

THIRTY_MINUTES_IN_SECONDS == 30 * 60

\* The recording-resource prefix.
VIDEO_RECORDING_PREFIX ==
    <<"K", "S", "M", "-", "K", "G", "H", "-", "V", "I", "D", "E", "O", "-",
      "R", "E", "C", "O", "R", "D", "I", "N", "G">>

\* The value of a missing string (null or undefined): no string of characters.
Null == <<"null">>

\* An object that may be missing is None or Some(object).
None == <<>>

Some(object) == <<object>>

\* Array destructuring with a default: the part at JavaScript index idx, or
\* dflt when the array is shorter.
PartOr(parts, idx, dflt) == IF idx + 1 <= Len(parts) THEN parts[idx + 1] ELSE dflt

\* Seconds from midnight of an HH:MM[:SS] string, null when the argument is no
\* string or a part is not numeric.
parseTimeToSeconds(timeStr) ==
    IF timeStr = Null THEN NullNumber
    ELSE LET pieces == Split(timeStr, ":")
             parts  == [p \in 1..Len(pieces) |-> Number(pieces[p])]
         IN  IF \E p \in 1..Len(parts) : parts[p] = NaN THEN NullNumber
             ELSE LET hours   == PartOr(parts, 0, 0)
                      minutes == PartOr(parts, 1, 0)
                      seconds == PartOr(parts, 2, 0)
                  IN  (hours * 3600) + (minutes * 60) + seconds

\* Seconds from midnight as an HH:MM:SS string.
formatSecondsToTime(totalSeconds) ==
    LET hours   == totalSeconds \div 3600
        minutes == (totalSeconds % 3600) \div 60
        seconds == totalSeconds % 60
    IN  Join(<<PadStart(NumToString(hours), 2, "0"),
               PadStart(NumToString(minutes), 2, "0"),
               PadStart(NumToString(seconds), 2, "0")>>, <<":">>)

\* The task list of one Event and one of its resources, given the number of
\* checks computed from the duration.
RecordingTasksOf(event, resourceName, startSeconds, totalChecks, clock) ==
    [index \in 1..totalChecks |->
        [event_id           |-> event.id,
         taskType           |-> "RECORDING CHECK",
         resource_item_name |-> resourceName,
         date               |-> event.date,
         time               |-> formatSecondsToTime(
                                   startSeconds + ((index - 1) * THIRTY_MINUTES_IN_SECONDS)),
         created_at         |-> clock,
         updated_at         |-> clock]]

\* A variant whose loop runs one check too many (index <= totalChecks).
createRecordingTasksOneMore(event, resource, clock) ==
    IF event = None \/ resource = None THEN <<>>
    ELSE LET resourceName ==
                 IF resource[1].itemName = Null THEN <<>> ELSE resource[1].itemName
         IN  IF ~StartsWith(ToUpperCase(resourceName), VIDEO_RECORDING_PREFIX) THEN <<>>
             ELSE LET startSeconds == parseTimeToSeconds(event[1].start_time)
                      endSeconds   == parseTimeToSeconds(event[1].end_time)
                  IN  IF startSeconds = NullNumber \/ endSeconds = NullNumber THEN <<>>
                      ELSE IF endSeconds - startSeconds <= 0 THEN <<>>
                      ELSE LET totalChecks ==
                                   (endSeconds - startSeconds) \div THIRTY_MINUTES_IN_SECONDS
                           IN  IF totalChecks <= 0 THEN <<>>
                               ELSE RecordingTasksOf(event[1], resourceName, startSeconds,
                                                     totalChecks + 1, clock)

createRecordingTasks(event, resource, clock) ==
    IF event = None \/ resource = None THEN <<>>
    ELSE LET resourceName ==
                 IF resource[1].itemName = Null THEN <<>> ELSE resource[1].itemName
         IN  IF ~StartsWith(ToUpperCase(resourceName), VIDEO_RECORDING_PREFIX) THEN <<>>
             ELSE LET startSeconds == parseTimeToSeconds(event[1].start_time)
                      endSeconds   == parseTimeToSeconds(event[1].end_time)
                  IN  IF startSeconds = NullNumber \/ endSeconds = NullNumber THEN <<>>
                      ELSE IF endSeconds - startSeconds <= 0 THEN <<>>
                      ELSE LET totalChecks ==
                                   (endSeconds - startSeconds) \div THIRTY_MINUTES_IN_SECONDS
                           IN  IF totalChecks <= 0 THEN <<>>
                               ELSE RecordingTasksOf(event[1], resourceName, startSeconds,
                                                     totalChecks, clock)


\* Clock times of Events, as minutes from midnight: on and off the half hour,
\* and the last minute of the day.
TaskMinutes == {0, 540, 555, 570, 600, 630, 1380, 1439}

\* HH:MM:00, the form in which the assembler writes start_time and end_time.
ClockString(minuteOfDay) ==
    Join(<<PadStart(NumToString(minuteOfDay \div 60), 2, "0"),
           PadStart(NumToString(minuteOfDay % 60), 2, "0"),
           <<"0", "0">>>>, <<":">>)

TaskTimeStrings == {ClockString(m) : m \in TaskMinutes} \cup {Null, <<"N", "a", "N", ":", "N", "a", "N", ":", "0", "0">>}

\* Resource names that start, in some letter case, with the recording prefix.
RecordingResourceNames ==
    { <<"K", "S", "M", "-", "K", "G", "H", "-", "V", "I", "D", "E", "O", "-", "R", "E", "C", "O", "R", "D", "I", "N", "G", "-", "A">>,
      <<"k", "s", "m", "-", "k", "g", "h", "-", "V", "i", "d", "e", "o", "-", "r", "e", "c", "o", "r", "d", "i", "n", "g">> }

\* Resource names that do not: a shorter name, the prefix further in, no name.
OtherResourceNames ==
    { <<"K", "S", "M", "-", "K", "G", "H", "-", "V", "I", "D", "E", "O">>,
      <<"r", "e", "c", "o", "r", "d", "i", "n", "g", " ", "K", "S", "M", "-", "K", "G", "H", "-", "V", "I", "D", "E", "O", "-", "R", "E", "C", "O", "R", "D", "I", "N", "G">>,
      <<>>,
      Null }

TaskResourceNames == RecordingResourceNames \cup OtherResourceNames

Timestamps ==
    { <<"2", "0", "2", "5", "-", "0", "7", "-", "1", "6", "T", "1", "4", ":", "0", "3", ":", "2", "7", ".", "0", "0", "0", "Z">>,
      <<"2", "0", "2", "5", "-", "0", "7", "-", "1", "7", "T", "0", "0", ":", "3", "0", ":", "0", "0", ".", "5", "0", "0", "Z">> }

TaskDate == <<"2", "0", "2", "5", "-", "0", "7", "-", "1", "6">>

InitTasks ==
    /\ \E st \in TaskTimeStrings, en \in TaskTimeStrings :
           taskEvent = Some([id |-> IdOfParts(5, 7, 3), date |-> TaskDate,
                             start_time |-> st, end_time |-> en])
    /\ taskResource \in {None} \cup
           {Some([itemName |-> name, quantity |-> 1, instruction |-> Null]) :
                name \in TaskResourceNames}
    /\ taskResult = <<>>
    /\ now \in Timestamps
    /\ IdIdle
    /\ PipeIdle
    /\ StageIdle
    /\ SaveIdle
    /\ FetchIdle
    /\ pc = "ready"

CreateRecordingTasks ==
    /\ pc = "ready"
    /\ pc' = "createRecordingTasks"
    /\ taskResult' = createRecordingTasks(taskEvent, taskResource, now)
    /\ UNCHANGED <<fetchVars, idVars, pipeVars, stageVars, taskEvent, taskResource, saveVars, now>>

NextTasks == CreateRecordingTasks

SpecTasks == InitTasks /\ [][NextTasks]_vars

(***************************************************************************)
(* Claims about the Recording-Task Deriver, checked under SpecTasks.       *)
(***************************************************************************)

\* C10: for a resource with the recording prefix, no task when
\* end_time - start_time <= 0, otherwise floor((end_time - start_time) / 30 min)
\* tasks, the i-th (from 0) at start_time + i * 30 min as HH:MM:SS, each ending
\* by end_time; for any other resource, no task.
C10_RecordingTaskSeries ==
    pc = "createRecordingTasks" =>
        /\ \A sm \in TaskMinutes, em \in TaskMinutes :
               ( /\ taskEvent[1].start_time = ClockString(sm)
                 /\ taskEvent[1].end_time = ClockString(em)
                 /\ taskResource # None
                 /\ taskResource[1].itemName \in RecordingResourceNames )
               => LET count == IF em - sm <= 0 THEN 0 ELSE (em - sm) \div 30
                  IN  /\ Len(taskResult) = count
                      /\ \A i \in 1..count :
                             /\ taskResult[i].time = ClockString(sm + ((i - 1) * 30))
                             /\ sm + (i * 30) <= em
        /\ ( \/ taskResource = None
             \/ taskResource[1].itemName \notin RecordingResourceNames )
           => taskResult = <<>>

\* 09:00:00 to 10:30:00 with KSM-KGH-VIDEO-RECORDING-A: tasks at 09:00:00,
\* 09:30:00 and 10:00:00.
C10_Witness ==
    /\ pc = "createRecordingTasks"
    /\ taskEvent[1].start_time = <<"0", "9", ":", "0", "0", ":", "0", "0">>
    /\ taskEvent[1].end_time = <<"1", "0", ":", "3", "0", ":", "0", "0">>
    /\ taskResource # None
    /\ taskResource[1].itemName = VIDEO_RECORDING_PREFIX \o <<"-", "A">>
    /\ Len(taskResult) = 3
    /\ taskResult[1].time = <<"0", "9", ":", "0", "0", ":", "0", "0">>
    /\ taskResult[2].time = <<"0", "9", ":", "3", "0", ":", "0", "0">>
    /\ taskResult[3].time = <<"1", "0", ":", "0", "0", ":", "0", "0">>

(***************************************************************************)
(* Raw event items and the Panel Extractor.                                *)
(*                                                                         *)
(* A raw item is a record; itemDetails, defn, panel, occur, prof, rsv, res *)
(* and the item list of a node are each None or Some(value).  A panel and  *)
(* an item are nodes [typeId, itemName, item].                             *)
(***************************************************************************)

\* JavaScript truthiness of a string value: neither missing nor empty.
Truthy(str) == str # Null /\ str # <<>>

\* data.itemDetails?.defn?.panel || []
PanelsOf(data) ==
    IF data.itemDetails = None THEN <<>>
    ELSE IF data.itemDetails[1].defn = None THEN <<>>
    ELSE IF data.itemDetails[1].defn[1].panel = None THEN <<>>
    ELSE data.itemDetails[1].defn[1].panel[1]

\* node?.item?.[idx] for an optional node: None when the node, its item list
\* or the index is missing.
ItemAt(node, idx) ==
    IF node = None THEN None
    ELSE IF node[1].item = None THEN None
    ELSE IF idx + 1 <= Len(node[1].item[1]) THEN Some(node[1].item[1][idx + 1])
    ELSE None

\* node?.itemName
NameOf(node) == IF node = None THEN Null ELSE node[1].itemName

KEC == <<"K", "E", "C">>

CMC == <<"C", "M", "C">>

\* A variant that looks at the CMC department before the Kellogg programs.
EventTypeOfPanelCMCFirst(panel) ==
    LET kelloggProgram == NameOf(ItemAt(ItemAt(Some(panel), 6), 0))
        cmcProgram     == NameOf(ItemAt(ItemAt(Some(panel), 8), 0))
        eventType      == NameOf(ItemAt(Some(panel), 2))
    IN  IF cmcProgram = <<"R", "E", "S", " ", "C", "M", "C", ",", " ", "K", "S", "M">> THEN CMC
        ELSE IF \/ kelloggProgram = <<"K", "e", "l", "l", "o", "g", "g", " ", "E", "x", "e", "c", "u", "t", "i", "v", "e", " ", "E", "d", "u", "c", "a", "t", "i", "o", "n", " ", "P", "r", "o", "g", "r", "a", "m", "s">>
                \/ kelloggProgram = <<"K", "e", "l", "l", "o", "g", "g", " ", "E", "x", "e", "c", "u", "t", "i", "v", "e", " ", "M", "B", "A", " ", "P", "r", "o", "g", "r", "a", "m">>
        THEN KEC
        ELSE IF Truthy(eventType) THEN eventType
        ELSE Null

\* The result of one typeId 11 panel: the overrides, then the name of item 2.
EventTypeOfPanel(panel) ==
    LET kelloggProgram == NameOf(ItemAt(ItemAt(Some(panel), 6), 0))
        cmcProgram     == NameOf(ItemAt(ItemAt(Some(panel), 8), 0))
        eventType      == NameOf(ItemAt(Some(panel), 2))
    IN  IF \/ kelloggProgram = <<"K", "e", "l", "l", "o", "g", "g", " ", "E", "x", "e", "c", "u", "t", "i", "v", "e", " ", "E", "d", "u", "c", "a", "t", "i", "o", "n", " ", "P", "r", "o", "g", "r", "a", "m", "s">>
           \/ kelloggProgram = <<"K", "e", "l", "l", "o", "g", "g", " ", "E", "x", "e", "c", "u", "t", "i", "v", "e", " ", "M", "B", "A", " ", "P", "r", "o", "g", "r", "a", "m">>
        THEN KEC
        ELSE IF cmcProgram = <<"R", "E", "S", " ", "C", "M", "C", ",", " ", "K", "S", "M">> THEN CMC
        ELSE IF Truthy(eventType) THEN eventType
        ELSE Null

RECURSIVE EventTypeScan(_)
EventTypeScan(panels) ==
    IF panels = <<>> THEN Null
    ELSE IF Head(panels).typeId = 11 /\ EventTypeOfPanel(Head(panels)) # Null
         THEN EventTypeOfPanel(Head(panels))
    ELSE EventTypeScan(Tail(panels))

\* A variant that types every item as an executive-education session.
getEventTypeAlwaysKEC(data) == KEC

getEventType(data) == EventTypeScan(PanelsOf(data))

RECURSIVE OrganizationScan(_)
OrganizationScan(panels) ==
    IF panels = <<>> THEN Null
    ELSE LET organization == NameOf(ItemAt(ItemAt(Some(Head(panels)), 6), 0))
         IN  IF Head(panels).typeId = 11 /\ Truthy(organization) THEN organization
             ELSE OrganizationScan(Tail(panels))

getOrganization(data) == OrganizationScan(PanelsOf(data))

RECURSIVE LectureTitleScan(_)
LectureTitleScan(panels) ==
    IF panels = <<>> THEN Null
    ELSE LET title == NameOf(ItemAt(Some(Head(panels)), 1))
         IN  IF Head(panels).typeId = 11 /\ Truthy(title) THEN title
             ELSE LectureTitleScan(Tail(panels))

getLectureTitle(data) == LectureTitleScan(PanelsOf(data))

\* str.replace(/^Instructors:\s*/, ''): without the leading "Instructors:" and
\* the blanks after it.
RECURSIVE DropLeadingBlanks(_)
DropLeadingBlanks(s) ==
    IF s # <<>> /\ Head(s) = " " THEN DropLeadingBlanks(Tail(s)) ELSE s

RECURSIVE DropTrailingBlanks(_)
DropTrailingBlanks(s) ==
    IF s # <<>> /\ s[Len(s)] = " " THEN DropTrailingBlanks(SubSeq(s, 1, Len(s) - 1)) ELSE s

\* String.prototype.trim() (the blank is the only white space of the model).
Trim(s) == DropTrailingBlanks(DropLeadingBlanks(s))

StripInstructorsLabel(s) ==
    LET label == <<"I", "n", "s", "t", "r", "u", "c", "t", "o", "r", "s", ":">>
    IN  IF StartsWith(s, label)
        THEN DropLeadingBlanks(SubSeq(s, Len(label) + 1, Len(s)))
        ELSE s

\* s.split(sep) for a separator of one or more characters.
RECURSIVE SplitOn(_, _, _)
SplitOn(s, sep, piece) ==
    IF s = <<>> THEN <<piece>>
    ELSE IF StartsWith(s, sep)
         THEN <<piece>> \o SplitOn(SubSeq(s, Len(sep) + 1, Len(s)), sep, <<>>)
    ELSE SplitOn(Tail(s), sep, Append(piece, Head(s)))

NonEmpty(piece) == Len(piece) > 0

\* Whether a cleaned instructor string is usable.
UsableInstructor(cleanName) ==
    /\ cleanName # <<>>
    /\ ~StartsWith(cleanName, <<"<">>)
    /\ Len(cleanName) > 2
    /\ Len(cleanName) < 100
    /\ ~Includes(cleanName, <<"{">>)
    /\ ~Includes(cleanName, <<"}">>)

\* The instructor list of a usable string, None when it holds no name.
InstructorList(cleanName) ==
    LET pieces      == SplitOn(cleanName, <<";", " ">>, <<>>)
        trimmed     == [p \in 1..Len(pieces) |-> Trim(pieces[p])]
        instructors == SelectSeq(trimmed, NonEmpty)
    IN  IF Len(instructors) > 0 THEN Some(instructors) ELSE None

\* The instructor string a panel offers: the first item's name for typeId 12,
\* the first item's first item's name for typeId 13, else none.
InstructorOfPanel(panel) ==
    IF panel.typeId = 12 THEN NameOf(ItemAt(Some(panel), 0))
    ELSE IF panel.typeId = 13 THEN NameOf(ItemAt(ItemAt(Some(panel), 0), 0))
    ELSE Null

RECURSIVE InstructorScan(_)
InstructorScan(panels) ==
    IF panels = <<>> THEN None
    ELSE LET instructor == InstructorOfPanel(Head(panels))
             cleanName  == Trim(StripInstructorsLabel(instructor))
         IN  IF Truthy(instructor) /\ UsableInstructor(cleanName)
             THEN InstructorList(cleanName)
             ELSE InstructorScan(Tail(panels))

getInstructorNames(data) == InstructorScan(PanelsOf(data))

(***************************************************************************)
(* Room-name, time and resource extraction.                                *)
(***************************************************************************)

\* The number of decimal digits of s from position p on.
RECURSIVE DigitRun(_, _)
DigitRun(s, p) ==
    IF p <= Len(s) /\ IsDigit(s[p]) THEN 1 + DigitRun(s, p + 1) ELSE 0

\* Whether the literal lit stands in s at position p.
LiteralAt(s, p, lit) ==
    p + Len(lit) - 1 <= Len(s) /\ SubSeq(s, p, p + Len(lit) - 1) = lit

\* The positions where /K(GHL\d+)/ matches.
LRoomMatches(s) ==
    {p \in 1..Len(s) : LiteralAt(s, p, <<"K", "G", "H", "L">>) /\ DigitRun(s, p + 4) >= 1}

\* The positions where /K(GH\d+[AB]?)/ matches.
RoomMatches(s) ==
    {p \in 1..Len(s) : LiteralAt(s, p, <<"K", "G", "H">>) /\ DigitRun(s, p + 3) >= 1}

\* The least element of a non-empty set of positions (the leftmost match).
First(positions) == CHOOSE p \in positions : \A q \in positions : p <= q

\* "KGH1110 (70)" to "GH 1110", "KGHL110" to "GH L110", Null without a match.
parseRoomName(subjectItemName) ==
    IF ~Truthy(subjectItemName) THEN Null
    ELSE IF LRoomMatches(subjectItemName) # {}
    THEN LET p == First(LRoomMatches(subjectItemName))
             digits == SubSeq(subjectItemName, p + 4,
                              p + 3 + DigitRun(subjectItemName, p + 4))
         IN  <<"G", "H", " ", "L">> \o digits
    ELSE IF RoomMatches(subjectItemName) = {} THEN Null
    ELSE LET p == First(RoomMatches(subjectItemName))
             stop == p + 3 + DigitRun(subjectItemName, p + 3)
             digits == SubSeq(subjectItemName, p + 3, stop - 1)
             suffix == IF stop <= Len(subjectItemName)
                          /\ subjectItemName[stop] \in {"A", "B"}
                       THEN <<subjectItemName[stop]>> ELSE <<>>
         IN  <<"G", "H", " ">> \o digits \o suffix

\* Decimal hours are counted in units of 1/HourGrid hour.
HourGrid == 240

\* Math.round((time - hour) * 60) for time = units / HourGrid: the nearest
\* whole minute, a half rounding up.
MinuteOf(units) == ((120 * (units % HourGrid)) + HourGrid) \div (2 * HourGrid)

\* One decimal-hour value as HH:MM:00.
TimeString(units) ==
    Join(<<PadStart(NumToString(units \div HourGrid), 2, "0"),
           PadStart(NumToString(MinuteOf(units)), 2, "0"),
           <<"0", "0">>>>, <<":">>)

toTimeStrings(start, end) ==
    [startTimeStr |-> TimeString(start), endTimeStr |-> TimeString(end)]

\* str.split("T")[0]
DatePart(str) == Split(str, "T")[1]

\* All rsv lists of the prof entries, concatenated in order.
RECURSIVE AllRsv(_)
AllRsv(profArray) ==
    IF profArray = <<>> THEN <<>>
    ELSE (IF Head(profArray).rsv = None THEN <<>> ELSE Head(profArray).rsv[1])
         \o AllRsv(Tail(profArray))

\* event.itemDetails?.occur?.prof
ProfOf(event) ==
    IF event.itemDetails = None THEN None
    ELSE IF event.itemDetails[1].occur = None THEN None
    ELSE event.itemDetails[1].occur[1].prof

\* A variant that reads event.itemDetails.occur without optional chaining: it
\* raises for an item without a payload.
parseEventResourcesThrowsUnchained(event) ==
    \/ event.itemDetails = None
    \/ /\ ProfOf(event) # None
       /\ event.subject_item_date = Null
       /\ \E p \in 1..Len(AllRsv(ProfOf(event)[1])) :
              Truthy(AllRsv(ProfOf(event)[1])[p].startDt)

\* eventDate.split('T') is evaluated at the first reservation with a startDt the
\* search visits: it raises a TypeError when the item has no subject_item_date.
parseEventResourcesThrows(event) ==
    /\ ProfOf(event) # None
    /\ event.subject_item_date = Null
    /\ \E p \in 1..Len(AllRsv(ProfOf(event)[1])) :
           Truthy(AllRsv(ProfOf(event)[1])[p].startDt)

RsvMatches(allRsv, eventDate) ==
    {p \in 1..Len(allRsv) :
        /\ Truthy(allRsv[p].startDt)
        /\ DatePart(allRsv[p].startDt) = DatePart(eventDate)}

SimplifiedResource(resource) ==
    [itemName    |-> resource.itemName,
     quantity    |-> resource.quantity,
     instruction |-> resource.instruction]

\* The resources of the first reservation on the event's date (defined when
\* parseEventResourcesThrows is false).
parseEventResources(event) ==
    IF ProfOf(event) = None THEN <<>>
    ELSE LET allRsv == AllRsv(ProfOf(event)[1])
         IN  IF Len(allRsv) = 0 THEN <<>>
             ELSE IF event.subject_item_date = Null THEN <<>>
             ELSE IF RsvMatches(allRsv, event.subject_item_date) = {} THEN <<>>
             ELSE LET matchingReservation ==
                          allRsv[First(RsvMatches(allRsv, event.subject_item_date))]
                  IN  IF matchingReservation.res = None THEN <<>>
                      ELSE [p \in 1..Len(matchingReservation.res[1]) |->
                               SimplifiedResource(matchingReservation.res[1][p])]

(***************************************************************************)
(* Record Filter and Event Assembler.                                      *)
(***************************************************************************)

PRIVATE == <<"(", "P", "r", "i", "v", "a", "t", "e", ")">>

CLOSED == <<"C", "l", "o", "s", "e", "d">>

\* A callback for which "(Private)" is the only placeholder label.
KeepsRawPrivateOnly(event) ==
    LET isPrivateEvent == event.itemId = 0 /\ event.itemName = PRIVATE
    IN  /\ ~isPrivateEvent
        /\ event.itemId2 # 0
        /\ ~(event.subject_itemName # Null /\ Includes(event.subject_itemName, <<"&">>))

\* A callback that drops every item whose itemId is 0.
KeepsRawNonZero(event) ==
    /\ event.itemId # 0
    /\ event.itemId2 # 0
    /\ ~(event.subject_itemName # Null /\ Includes(event.subject_itemName, <<"&">>))

\* The filter callback: whether a raw item survives.
KeepsRaw(event) ==
    LET isPrivateEvent ==
            event.itemId = 0 /\ (event.itemName = PRIVATE \/ event.itemName = CLOSED)
    IN  /\ ~isPrivateEvent
        /\ event.itemId2 # 0
        /\ ~(event.subject_itemName # Null /\ Includes(event.subject_itemName, <<"&">>))

RecordFilter(rawItems) == SelectSeq(rawItems, KeepsRaw)

\* The date of an Event: the date part of subject_item_date, of the clock
\* when the item has none.
EventDate(event, clock) ==
    IF Truthy(event.subject_item_date) THEN DatePart(event.subject_item_date)
    ELSE DatePart(clock)

\* The canonical Event of one surviving raw item, as transformRawEventsToEvents
\* builds it.
AssembleEvent(event, clock) ==
    [item_id          |-> event.itemId,
     item_id2         |-> event.itemId2,
     id               |-> generateDeterministicId(event.itemId, event.itemId2,
                                                  event.subject_itemId),
     date             |-> EventDate(event, clock),
     start_time       |-> toTimeStrings(event.start, event.end).startTimeStr,
     end_time         |-> toTimeStrings(event.start, event.end).endTimeStr,
     event_name       |-> event.itemName,
     event_type       |-> getEventType(event),
     organization     |-> getOrganization(event),
     instructor_names |-> getInstructorNames(event),
     lecture_title    |-> getLectureTitle(event),
     room_name        |-> parseRoomName(event.subject_itemName),
     resources        |-> parseEventResources(event),
     updated_at       |-> clock,
     raw              |-> event]

\* The Event as processData builds it: the same fields without updated_at.
AssembleEventLegacy(event, clock) ==
    [item_id          |-> event.itemId,
     item_id2         |-> event.itemId2,
     id               |-> generateDeterministicId(event.itemId, event.itemId2,
                                                  event.subject_itemId),
     date             |-> EventDate(event, clock),
     start_time       |-> TimeString(event.start),
     end_time         |-> TimeString(event.end),
     event_name       |-> event.itemName,
     event_type       |-> getEventType(event),
     organization     |-> getOrganization(event),
     instructor_names |-> getInstructorNames(event),
     lecture_title    |-> getLectureTitle(event),
     room_name        |-> parseRoomName(event.subject_itemName),
     resources        |-> parseEventResources(event),
     raw              |-> event]

(***************************************************************************)
(* Adjacent-Room Merger.                                                   *)
(***************************************************************************)

\* The declared pairs, in the order the code handles them.
RoomPairs ==
    << [first |-> <<"G", "H", " ", "1", "4", "2", "0">>,  second |-> <<"G", "H", " ", "1", "4", "3", "0">>,  merged |-> <<"G", "H", " ", "1", "4", "2", "0", "&", "3", "0">>],
       [first |-> <<"G", "H", " ", "2", "4", "1", "0", "A">>, second |-> <<"G", "H", " ", "2", "4", "1", "0", "B">>, merged |-> <<"G", "H", " ", "2", "4", "1", "0", "A", "&", "B">>],
       [first |-> <<"G", "H", " ", "2", "4", "2", "0", "A">>, second |-> <<"G", "H", " ", "2", "4", "2", "0", "B">>, merged |-> <<"G", "H", " ", "2", "4", "2", "0", "A", "&", "B">>],
       [first |-> <<"G", "H", " ", "2", "4", "3", "0", "A">>, second |-> <<"G", "H", " ", "2", "4", "3", "0", "B">>, merged |-> <<"G", "H", " ", "2", "4", "3", "0", "A", "&", "B">>] >>

\* A value inside a template literal: null reads "null".
TemplateText(value) == IF value = Null THEN <<"n", "u", "l", "l">> ELSE value

\* The key of the merger's groups: `${date}_${event_name}_${start_time}`.
MergeKey(event) ==
    Join(<<TemplateText(event.date), TemplateText(event.event_name),
           TemplateText(event.start_time)>>, <<"_">>)

\* The distinct keys of the events, in order of first occurrence (the
\* insertion order of the grouping object's properties).
RECURSIVE KeysInOrder(_, _)
KeysInOrder(keys, seen) ==
    IF keys = <<>> THEN seen
    ELSE IF \E p \in 1..Len(seen) : seen[p] = Head(keys)
         THEN KeysInOrder(Tail(keys), seen)
    ELSE KeysInOrder(Tail(keys), Append(seen, Head(keys)))

\* The events filed under one key, in input order; keys[p] is the key of
\* events[p].
RECURSIVE GroupOf(_, _, _)
GroupOf(events, keys, key) ==
    IF events = <<>> THEN <<>>
    ELSE (IF Head(keys) = key THEN <<Head(events)>> ELSE <<>>)
         \o GroupOf(Tail(events), Tail(keys), key)

\* Array.prototype.find by room name: the position in the group of the first
\* event with that room_name, 0 when there is none.
FindRoom(eventGroup, room) ==
    IF \E p \in 1..Len(eventGroup) : eventGroup[p].room_name = room
    THEN First({p \in 1..Len(eventGroup) : eventGroup[p].room_name = room})
    ELSE 0

\* Whether the group holds both rooms of the pair.
PairFound(eventGroup, pair) ==
    FindRoom(eventGroup, pair.first) # 0 /\ FindRoom(eventGroup, pair.second) # 0

\* A variant that copies the second room's Event of a pair.
RECURSIVE MergedOfPairsFromSecond(_, _)
MergedOfPairsFromSecond(eventGroup, k) ==
    IF k > Len(RoomPairs) THEN <<>>
    ELSE (IF PairFound(eventGroup, RoomPairs[k])
          THEN <<[eventGroup[FindRoom(eventGroup, RoomPairs[k].second)]
                      EXCEPT !.room_name = RoomPairs[k].merged]>>
          ELSE <<>>)
         \o MergedOfPairsFromSecond(eventGroup, k + 1)

\* The merged Events pushed for the pairs from position k on, in pair order.
RECURSIVE MergedOfPairs(_, _)
MergedOfPairs(eventGroup, k) ==
    IF k > Len(RoomPairs) THEN <<>>
    ELSE (IF PairFound(eventGroup, RoomPairs[k])
          THEN <<[eventGroup[FindRoom(eventGroup, RoomPairs[k].first)]
                      EXCEPT !.room_name = RoomPairs[k].merged]>>
          ELSE <<>>)
         \o MergedOfPairs(eventGroup, k + 1)

\* A variant that marks only the first room of a merged pair as processed.
ProcessedPositionsFirstOnly(eventGroup) ==
    { FindRoom(eventGroup, RoomPairs[k].first) :
        k \in {j \in 1..Len(RoomPairs) : PairFound(eventGroup, RoomPairs[j])} }

\* processedEvents: the positions of the group consumed by a merge.
ProcessedPositions(eventGroup) ==
    UNION { {FindRoom(eventGroup, RoomPairs[k].first),
             FindRoom(eventGroup, RoomPairs[k].second)} :
            k \in {j \in 1..Len(RoomPairs) : PairFound(eventGroup, RoomPairs[j])} }

\* The members of the group from position p on that no merge consumed.
RECURSIVE Unprocessed(_, _, _)
Unprocessed(eventGroup, processed, p) ==
    IF p > Len(eventGroup) THEN <<>>
    ELSE (IF p \in processed THEN <<>> ELSE <<eventGroup[p]>>)
         \o Unprocessed(eventGroup, processed, p + 1)

\* What one group contributes to mergedEvents.
MergeGroup(eventGroup) ==
    IF Len(eventGroup) = 1 THEN eventGroup
    ELSE MergedOfPairs(eventGroup, 1)
         \o Unprocessed(eventGroup, ProcessedPositions(eventGroup), 1)

\* The keys of the events, position by position.
MergeKeys(events) == [p \in 1..Len(events) |-> MergeKey(events[p])]

\* Object.values(eventGroups).forEach: the groups in key order.
RECURSIVE MergeGroups(_, _)
MergeGroups(events, keys) ==
    IF keys = <<>> THEN <<>>
    ELSE MergeGroup(GroupOf(events, MergeKeys(events), Head(keys)))
         \o MergeGroups(events, Tail(keys))

mergeAdjacentRoomEvents(events) ==
    MergeGroups(events, KeysInOrder(MergeKeys(events), <<>>))

(***************************************************************************)
(* Session Consolidator.                                                   *)
(***************************************************************************)

\* The < of two JavaScript strings: by character code, a proper prefix first.
RECURSIVE StrLess(_, _)
StrLess(a, b) ==
    IF b = <<>> THEN FALSE
    ELSE IF a = <<>> THEN TRUE
    ELSE IF Head(a) # Head(b) THEN CharCode(Head(a)) < CharCode(Head(b))
    ELSE StrLess(Tail(a), Tail(b))

IsKEC(event) == event.event_type = KEC

NotKEC(event) == event.event_type # KEC

\* The key of the consolidator's groups: `${date}_${room_name}`.
KECKey(event) ==
    Join(<<TemplateText(event.date), TemplateText(event.room_name)>>, <<"_">>)

\* The earliest start_time of the group from position p on, starting from best.
RECURSIVE EarliestStart(_, _, _)
EarliestStart(eventGroup, p, best) ==
    IF p > Len(eventGroup) THEN best
    ELSE EarliestStart(eventGroup, p + 1,
                       IF StrLess(eventGroup[p].start_time, best)
                       THEN eventGroup[p].start_time ELSE best)

\* The latest end_time of the group from position p on, starting from best.
RECURSIVE LatestEnd(_, _, _)
LatestEnd(eventGroup, p, best) ==
    IF p > Len(eventGroup) THEN best
    ELSE LatestEnd(eventGroup, p + 1,
                   IF StrLess(best, eventGroup[p].end_time)
                   THEN eventGroup[p].end_time ELSE best)

\* A variant that keeps the template's end_time.
CombineGroupKeepEnd(eventGroup) ==
    IF Len(eventGroup) = 1 THEN eventGroup
    ELSE <<[eventGroup[1] EXCEPT
               !.start_time = EarliestStart(eventGroup, 1, eventGroup[1].start_time),
               !.instructor_names = None,
               !.resources = <<>>]>>

\* What one group of KEC Events becomes.
CombineGroup(eventGroup) ==
    IF Len(eventGroup) = 1 THEN eventGroup
    ELSE <<[eventGroup[1] EXCEPT
               !.start_time = EarliestStart(eventGroup, 1, eventGroup[1].start_time),
               !.end_time = LatestEnd(eventGroup, 1, eventGroup[1].end_time),
               !.instructor_names = None,
               !.resources = <<>>]>>

\* The keys of the KEC events, position by position.
KECKeys(kecEvents) == [p \in 1..Len(kecEvents) |-> KECKey(kecEvents[p])]

\* Object.entries(kecGroups).forEach: the groups in key order.
RECURSIVE CombineGroups(_, _)
CombineGroups(kecEvents, keys) ==
    IF keys = <<>> THEN <<>>
    ELSE CombineGroup(GroupOf(kecEvents, KECKeys(kecEvents), Head(keys)))
         \o CombineGroups(kecEvents, Tail(keys))

combineKECEvents(events) ==
    LET kecEvents    == SelectSeq(events, IsKEC)
        nonKecEvents == SelectSeq(events, NotKEC)
    IN  IF Len(kecEvents) = 0 THEN events
        ELSE CombineGroups(kecEvents, KeysInOrder(KECKeys(kecEvents), <<>>))
             \o nonKecEvents

\* event.raw.itemDetails?.defn?.panel[1]?.item?.[0]?.itemName (defined when
\* the panel list exists or the chain stops before it).
SecondPanelName(event) ==
    IF Len(PanelsOf(event.raw)) < 2 THEN Null
    ELSE NameOf(ItemAt(Some(PanelsOf(event.raw)[2]), 0))

\* The read of panel[1] raises a TypeError when defn exists without a panel list.
SecondPanelReadThrows(event) ==
    /\ event.raw.itemDetails # None
    /\ event.raw.itemDetails[1].defn # None
    /\ event.raw.itemDetails[1].defn[1].panel = None

IsAcademic(event) ==
    \/ SecondPanelName(event) = <<"<", "p", ">", "A", "c", "a", "d", "e", "m", "i", "c", " ", "S", "e", "s", "s", "i", "o", "n", "<", "/", "p", ">">>
    \/ SecondPanelName(event) = <<"<", "p", ">", "C", "l", "a", "s", "s", " ", "S", "e", "s", "s", "i", "o", "n", "<", "/", "p", ">">>

\* A callback that keeps every Event.
KeepsEveryEvent(event) == TRUE

\* The filter callback of removeKECNoAcademicEvents.
KeepsEvent(event) == event.event_type # KEC \/ IsAcademic(event)

removeKECNoAcademicEvents(events) == SelectSeq(events, KeepsEvent)

removeKECNoAcademicEventsThrows(events) ==
    \E p \in 1..Len(events) : events[p].event_type = KEC /\ SecondPanelReadThrows(events[p])

(***************************************************************************)
(* The two pipelines: transformRawEventsToEvents and processData.          *)
(***************************************************************************)

\* filteredData.map of transformRawEventsToEvents.
MapAssemble(items, clock) ==
    [p \in 1..Len(items) |-> AssembleEvent(items[p], clock)]

\* filteredData.map of processData.
MapAssembleLegacy(items, clock) ==
    [p \in 1..Len(items) |-> AssembleEventLegacy(items[p], clock)]

\* Whether assembling the items raises (in parseEventResources).
AssembleThrows(items) ==
    \E p \in 1..Len(items) : parseEventResourcesThrows(items[p])

\* The locals and the outcome of one run of a pipeline.
NoRun ==
    [filteredData |-> <<>>, processedEvents |-> <<>>, combinedEvents |-> <<>>,
     mergedEvents |-> <<>>, returned |-> <<>>, threw |-> FALSE]

\* A value that is not an array (an object): neither None nor Some(list).
NotAnArray == <<<<>>, <<>>>>

\* rawData && Array.isArray(rawData)
IsArray(rawInput) == Len(rawInput) = 1

\* A variant without the guard: rawData.filter raises on a value that is not
\* an array.
transformRawEventsToEventsUnguarded(rawInput, clock) ==
    IF ~IsArray(rawInput) THEN [NoRun EXCEPT !.threw = TRUE]
    ELSE LET filteredData == RecordFilter(rawInput[1])
         IN  IF AssembleThrows(filteredData)
             THEN [NoRun EXCEPT !.filteredData = filteredData, !.threw = TRUE]
             ELSE LET processedEvents == MapAssemble(filteredData, clock)
                      mergedEvents    == mergeAdjacentRoomEvents(processedEvents)
                  IN  [filteredData    |-> filteredData,
                       processedEvents |-> processedEvents,
                       combinedEvents  |-> <<>>,
                       mergedEvents    |-> mergedEvents,
                       returned        |-> removeKECNoAcademicEvents(mergedEvents),
                       threw           |-> removeKECNoAcademicEventsThrows(mergedEvents)]

transformRawEventsToEvents(rawInput, clock) ==
    IF ~IsArray(rawInput) THEN NoRun
    ELSE LET filteredData == RecordFilter(rawInput[1])
         IN  IF AssembleThrows(filteredData)
             THEN [NoRun EXCEPT !.filteredData = filteredData, !.threw = TRUE]
             ELSE LET processedEvents == MapAssemble(filteredData, clock)
                      mergedEvents    == mergeAdjacentRoomEvents(processedEvents)
                  IN  [filteredData    |-> filteredData,
                       processedEvents |-> processedEvents,
                       combinedEvents  |-> <<>>,
                       mergedEvents    |-> mergedEvents,
                       returned        |-> removeKECNoAcademicEvents(mergedEvents),
                       threw           |-> removeKECNoAcademicEventsThrows(mergedEvents)]

processData(rawInput, clock) ==
    IF ~IsArray(rawInput) THEN NoRun
    ELSE LET filteredData == RecordFilter(rawInput[1])
         IN  IF AssembleThrows(filteredData)
             THEN [NoRun EXCEPT !.filteredData = filteredData, !.threw = TRUE]
             ELSE LET processedEvents ==
                          MapAssembleLegacy(filteredData, clock)
                      eventsWithCombinedKEC == combineKECEvents(processedEvents)
                      mergedEvents == mergeAdjacentRoomEvents(eventsWithCombinedKEC)
                  IN  [filteredData    |-> filteredData,
                       processedEvents |-> processedEvents,
                       combinedEvents  |-> eventsWithCombinedKEC,
                       mergedEvents    |-> mergedEvents,
                       returned        |-> mergedEvents,
                       threw           |-> FALSE]

(***************************************************************************)
(* Raw items of the model.                                                 *)
(***************************************************************************)

Leaf(name) == [typeId |-> 0, itemName |-> name, item |-> None]

Parent(children) == [typeId |-> 0, itemName |-> Null, item |-> Some(children)]

Panel(typeId, items) == [typeId |-> typeId, itemName |-> Null, item |-> Some(items)]

\* A classification panel: the lecture title at item 1, the event type at
\* item 2, the organization under item 6 and the department under item 8.
ClassificationPanel(title, type, organization, department) ==
    Panel(11, << Leaf(<<"E", "v", "e", "n", "t">>), Leaf(title), Leaf(type), Leaf(Null), Leaf(Null),
                 Leaf(Null), Parent(<<Leaf(organization)>>), Leaf(Null),
                 Parent(<<Leaf(department)>>) >>)

\* A description panel: markup text at item 0.
DescriptionPanel(text) == Panel(12, <<Leaf(text)>>)

\* A multi-instructor panel.
InstructorPanel(text) == Panel(13, <<Parent(<<Leaf(text)>>)>>)

Day1 == <<"2", "0", "2", "5", "-", "0", "7", "-", "1", "5", "T", "0", "0", ":", "0", "0", ":", "0", "0">>

Day2 == <<"2", "0", "2", "5", "-", "0", "7", "-", "1", "6", "T", "0", "0", ":", "0", "0", ":", "0", "0">>

\* One reservation on Day1 with a recording and a laptop resource.
Occurrences ==
    Some([prof |-> Some(<<
        [rsv |-> Some(<<
            [startDt |-> <<"2", "0", "2", "5", "-", "0", "7", "-", "1", "4", "T", "0", "9", ":", "0", "0">>, res |-> None],
            [startDt |-> <<"2", "0", "2", "5", "-", "0", "7", "-", "1", "5", "T", "0", "9", ":", "0", "0">>,
             res |-> Some(<< [itemName |-> <<"K", "S", "M", "-", "K", "G", "H", "-", "V", "I", "D", "E", "O", "-", "R", "E", "C", "O", "R", "D", "I", "N", "G", "-", "A">>,
                              quantity |-> 1, instruction |-> Null, itemId |-> 31],
                             [itemName |-> <<"K", "S", "M", "-", "K", "G", "H", "-", "A", "V", "-", "L", "a", "p", "t", "o", "p">>,
                              quantity |-> 2, instruction |-> <<"H", "D", "M", "I">>, itemId |-> 32] >>)]
        >>)] >>)])

Details(panels) ==
    Some([defn |-> Some([panel |-> Some(panels)]), occur |-> Occurrences])

KelloggPanel ==
    ClassificationPanel(<<"L", "e", "a", "d", "i", "n", "g", " ", "T", "e", "a", "m", "s">>, <<"E", "x", "e", "c", "u", "t", "i", "v", "e", " ", "P", "r", "o", "g", "r", "a", "m">>,
                        <<"K", "e", "l", "l", "o", "g", "g", " ", "E", "x", "e", "c", "u", "t", "i", "v", "e", " ", "E", "d", "u", "c", "a", "t", "i", "o", "n", " ", "P", "r", "o", "g", "r", "a", "m", "s">>, Null)

\* An executive-education session described as an academic session.
KECAcademic ==
    Details(<<KelloggPanel, DescriptionPanel(<<"<", "p", ">", "A", "c", "a", "d", "e", "m", "i", "c", " ", "S", "e", "s", "s", "i", "o", "n", "<", "/", "p", ">">>),
              InstructorPanel(<<"I", "n", "s", "t", "r", "u", "c", "t", "o", "r", "s", ":", " ", "A", "n", "n", " ", "L", "e", "e", ";", " ", "B", "o", " ", "C", "h", "e", "n">>)>>)

\* An executive-education session described as a class session.
KECClass ==
    Details(<< ClassificationPanel(Null, Null, <<"K", "e", "l", "l", "o", "g", "g", " ", "E", "x", "e", "c", "u", "t", "i", "v", "e", " ", "M", "B", "A", " ", "P", "r", "o", "g", "r", "a", "m">>, Null),
               DescriptionPanel(<<"<", "p", ">", "C", "l", "a", "s", "s", " ", "S", "e", "s", "s", "i", "o", "n", "<", "/", "p", ">">>) >>)

\* An executive-education booking with another description.
KECReception ==
    Details(<<KelloggPanel, DescriptionPanel(<<"<", "p", ">", "R", "e", "c", "e", "p", "t", "i", "o", "n", "<", "/", "p", ">">>)>>)

\* An executive-education booking whose payload has the one panel.
KECBare == Details(<<KelloggPanel>>)

\* A degree-program lecture: typed by item 2, described like an academic session.
Lecture ==
    Details(<< ClassificationPanel(<<"F", "i", "n", "a", "n", "c", "e", " ", "I">>, <<"L", "e", "c", "t", "u", "r", "e">>, <<"F", "i", "n", "a", "n", "c", "e", " ", "D", "e", "p", "a", "r", "t", "m", "e", "n", "t">>, Null),
               DescriptionPanel(<<"<", "p", ">", "A", "c", "a", "d", "e", "m", "i", "c", " ", "S", "e", "s", "s", "i", "o", "n", "<", "/", "p", ">">>),
               Panel(12, <<Leaf(<<"I", "n", "s", "t", "r", "u", "c", "t", "o", "r", "s", ":", " ", "D", "a", "n", "a", " ", "C", "r", "u", "z">>)>>) >>)

\* A booking of the CMC department, with another description.
CMCBooking ==
    Details(<< ClassificationPanel(Null, <<"M", "e", "e", "t", "i", "n", "g">>, Null, <<"R", "E", "S", " ", "C", "M", "C", ",", " ", "K", "S", "M">>),
               DescriptionPanel(<<"<", "p", ">", "I", "n", "t", "e", "r", "v", "i", "e", "w", "<", "/", "p", ">">>) >>)

RawItem(itemId, itemId2, subjectItemId, itemName, subjectItemName, date, start, end, itemDetails) ==
    [itemId            |-> itemId,
     itemId2           |-> itemId2,
     subject_itemId    |-> subjectItemId,
     itemName          |-> itemName,
     subject_itemName  |-> subjectItemName,
     subject_item_date |-> date,
     start             |-> start,
     end               |-> end,
     itemDetails       |-> itemDetails]

\* h hours and q quarter hours, in grid units.
Hours(h, q) == (h * HourGrid) + ((q * HourGrid) \div 4)

\* Items that exercise the record filter: zero and non-zero ids, placeholder
\* and real names, room labels with and without an ampersand, and no label.
FilterRaws ==
    { RawItem(itemId, itemId2, room[1], itemName, room[2], Day1,
              Hours(9, 0), Hours(10, 2), None) :
        itemId \in {0, 5}, itemId2 \in {0, 7},
        itemName \in {PRIVATE, CLOSED, <<"F", "i", "n", "a", "n", "c", "e", " ", "I">>},
        room \in {<<440, <<"K", "G", "H", "1", "1", "1", "0", " ", "(", "7", "0", ")">>>>, <<470, <<"K", "G", "H", "1", "4", "2", "0", "&", "3", "0", " ", "(", "1", "4", "0", ")">>>>, <<0, Null>>} }

\* Items that exercise the merger and the KEC stages: sessions of one name in
\* the two rooms of a pair, at two start times, with each kind of payload.
SessionRaws ==
    { RawItem(6100, 7200 + start, room[1], <<"L", "e", "a", "d", "i", "n", "g", " ", "T", "e", "a", "m", "s">>, room[2], Day1,
              Hours(9 + start, 0), Hours(10 + start, 2), details) :
        start \in {0, 1},
        room \in {<<451, <<"K", "G", "H", "1", "4", "2", "0", " ", "(", "7", "0", ")">>>>, <<452, <<"K", "G", "H", "1", "4", "3", "0", " ", "(", "7", "0", ")">>>>},
        details \in {KECAcademic, KECClass, KECReception, KECBare, Lecture, CMCBooking} }

\* Items without a subject item date, with and without a detail payload (the
\* payloads hold reservations with a startDt), beside a dated item.
DatelessRaws ==
    { RawItem(6500, 7701, 440, <<"F", "i", "n", "a", "n", "c", "e", " ", "I">>, <<"K", "G", "H", "1", "1", "1", "0", " ", "(", "7", "0", ")">>, Null, Hours(9, 0), Hours(10, 2), None),
      RawItem(6500, 7702, 451, <<"F", "i", "n", "a", "n", "c", "e", " ", "I">>, <<"K", "G", "H", "1", "4", "2", "0", " ", "(", "7", "0", ")">>, Null, Hours(9, 0), Hours(10, 2), Lecture),
      RawItem(6500, 7703, 452, <<"L", "e", "a", "d", "i", "n", "g", " ", "T", "e", "a", "m", "s">>, <<"K", "G", "H", "1", "4", "3", "0", " ", "(", "7", "0", ")">>, Null, Hours(9, 0), Hours(10, 2), KECAcademic),
      RawItem(6500, 7704, 440, <<"F", "i", "n", "a", "n", "c", "e", " ", "I">>, <<"K", "G", "H", "1", "1", "1", "0", " ", "(", "7", "0", ")">>, Day1, Hours(11, 0), Hours(12, 0), Lecture) }

\* Lectures of three reservations in two rooms, the subject id of the second
\* room of five digits: distinct triples throughout.
OverlapRaws ==
    { RawItem(6600, 7802, 440, <<"F", "i", "n", "a", "n", "c", "e", " ", "I">>, <<"K", "G", "H", "1", "1", "1", "0", " ", "(", "7", "0", ")">>, Day1, Hours(9, 0), Hours(10, 2), Lecture),
      RawItem(6600, 7801, 10440, <<"M", "a", "r", "k", "e", "t", "i", "n", "g">>, <<"K", "G", "H", "2", "1", "3", "0", " ", "(", "4", "0", ")">>, Day1, Hours(9, 0), Hours(10, 2), Lecture),
      RawItem(6600, 7803, 440, <<"S", "t", "r", "a", "t", "e", "g", "y">>, <<"K", "G", "H", "1", "1", "1", "0", " ", "(", "7", "0", ")">>, Day1, Hours(11, 0), Hours(12, 0), Lecture) }

\* Items whose payload lacks a level: a definition without a panel list, no
\* definition; beside them two executive-education sessions.
PayloadRaws ==
    { RawItem(6900, 8101, 440, <<"F", "i", "n", "a", "n", "c", "e", " ", "I">>, <<"K", "G", "H", "1", "1", "1", "0", " ", "(", "7", "0", ")">>, Day1, Hours(9, 0), Hours(10, 2),
              Some([defn |-> Some([panel |-> None]), occur |-> None])),
      RawItem(6900, 8102, 451, <<"F", "i", "n", "a", "n", "c", "e", " ", "I">>, <<"K", "G", "H", "1", "4", "2", "0", " ", "(", "7", "0", ")">>, Day1, Hours(9, 0), Hours(10, 2),
              Some([defn |-> None, occur |-> None])),
      RawItem(6900, 8103, 451, <<"L", "e", "a", "d", "i", "n", "g", " ", "T", "e", "a", "m", "s">>, <<"K", "G", "H", "1", "4", "2", "0", " ", "(", "7", "0", ")">>, Day1, Hours(11, 0), Hours(12, 0), KECReception),
      RawItem(6900, 8104, 452, <<"L", "e", "a", "d", "i", "n", "g", " ", "T", "e", "a", "m", "s">>, <<"K", "G", "H", "1", "4", "3", "0", " ", "(", "7", "0", ")">>, Day1, Hours(11, 0), Hours(12, 0), KECAcademic) }

\* The longest raw list of the model.
MaxRaw == 2

\* The identity triple of a raw item: one item per reservation and room.
Triple(item) == <<item.itemId, item.itemId2, item.subject_itemId>>

DistinctTriples(list) ==
    \A p, q \in 1..Len(list) : p # q => Triple(list[p]) # Triple(list[q])

\* The lists of at most longest items drawn from a set, one item per triple.
ListsOver(items, longest) ==
    {list \in UNION { [1..n -> items] : n \in 0..longest } : DistinctTriples(list)}

\* The inputs of the pipelines: a scrape of filter items, one of sessions,
\* one with items without a date, one of lectures in two rooms or one with
\* payloads that lack a level.
RawLists(longest) ==
    ListsOver(FilterRaws, longest) \cup ListsOver(SessionRaws, longest)
        \cup ListsOver(DatelessRaws, longest) \cup ListsOver(OverlapRaws, longest)
        \cup ListsOver(PayloadRaws, longest)

\* The clock of a pipeline run.
PipelineClock == <<"2", "0", "2", "5", "-", "0", "7", "-", "1", "6", "T", "1", "4", ":", "0", "3", ":", "2", "7", ".", "0", "0", "0", "Z">>

InitPipeline ==
    /\ rawData \in {None, NotAnArray} \cup {Some(list) : list \in RawLists(MaxRaw)}
    /\ run = NoRun
    /\ now = PipelineClock
    /\ IdIdle
    /\ TaskIdle
    /\ StageIdle
    /\ SaveIdle
    /\ FetchIdle
    /\ pc = "ready"

TransformRawEventsToEvents ==
    /\ pc = "ready"
    /\ pc' = "transformRawEventsToEvents"
    /\ run' = transformRawEventsToEvents(rawData, now)
    /\ UNCHANGED <<fetchVars, idVars, taskVars, stageVars, rawData, saveVars, now>>

ProcessData ==
    /\ pc = "ready"
    /\ pc' = "processData"
    /\ run' = processData(rawData, now)
    /\ UNCHANGED <<fetchVars, idVars, taskVars, stageVars, rawData, saveVars, now>>

\* The readings of the clock at a later run: a second later, and the next day.
LaterClocks ==
    { <<"2", "0", "2", "5", "-", "0", "7", "-", "1", "6", "T", "1", "4", ":", "0", "3", ":", "2", "8", ".", "0", "0", "0", "Z">>, <<"2", "0", "2", "5", "-", "0", "7", "-", "1", "7", "T", "0", "0", ":", "3", "0", ":", "0", "0", ".", "5", "0", "0", "Z">> }

\* A second run on the same raw input, later, with nothing kept from the first.
TransformRawEventsToEventsAgain ==
    /\ pc = "transformRawEventsToEvents"
    /\ pc' = "transformRawEventsToEventsAgain"
    /\ now' \in LaterClocks
    /\ stageAgain' = transformRawEventsToEvents(rawData, now')
    /\ UNCHANGED <<fetchVars, idVars, taskVars, pipeVars, stageInput, stageOutput, saveVars>>

ProcessDataAgain ==
    /\ pc = "processData"
    /\ pc' = "processDataAgain"
    /\ now' \in LaterClocks
    /\ stageAgain' = processData(rawData, now')
    /\ UNCHANGED <<fetchVars, idVars, taskVars, pipeVars, stageInput, stageOutput, saveVars>>

NextPipeline == TransformRawEventsToEvents \/ ProcessData

\* Two runs in a row, on scrapes of dated and dateless items.
InitRerun ==
    /\ rawData \in {None, NotAnArray} \cup {Some(list) : list \in ListsOver(DatelessRaws, MaxRaw)}
    /\ run = NoRun
    /\ now = PipelineClock
    /\ IdIdle
    /\ TaskIdle
    /\ StageIdle
    /\ SaveIdle
    /\ FetchIdle
    /\ pc = "ready"

NextRerun ==
    \/ TransformRawEventsToEvents
    \/ ProcessData
    \/ TransformRawEventsToEventsAgain
    \/ ProcessDataAgain

SpecRerun == InitRerun /\ [][NextRerun]_vars

SpecPipeline == InitPipeline /\ [][NextPipeline]_vars

(***************************************************************************)
(* Claims about the pipelines, checked under SpecPipeline.                 *)
(***************************************************************************)

\* A pipeline has run on a list of raw items.
PipelineRan ==
    pc \in {"transformRawEventsToEvents", "processData"} /\ IsArray(rawData)

HasAmpersand(name) == name # Null /\ \E p \in 1..Len(name) : name[p] = "&"

\* The drop condition as the specification words it.
DroppedBySpec(item) ==
    \/ item.itemId = 0 /\ item.itemName \in {<<"(", "P", "r", "i", "v", "a", "t", "e", ")">>, <<"C", "l", "o", "s", "e", "d">>}
    \/ item.itemId2 = 0
    \/ HasAmpersand(item.subject_itemName)

SurvivesBySpec(item) == ~DroppedBySpec(item)

\* Whether the list holds the element.
Holds(list, element) == \E p \in 1..Len(list) : list[p] = element

AcademicBySpec(event) ==
    /\ event.raw.itemDetails # None
    /\ event.raw.itemDetails[1].defn # None
    /\ event.raw.itemDetails[1].defn[1].panel # None
    /\ LET panels == event.raw.itemDetails[1].defn[1].panel[1]
       IN  /\ Len(panels) >= 2
           /\ panels[2].item # None
           /\ Len(panels[2].item[1]) >= 1
           /\ panels[2].item[1][1].itemName \in
                  {<<"<", "p", ">", "A", "c", "a", "d", "e", "m", "i", "c", " ", "S", "e", "s", "s", "i", "o", "n", "<", "/", "p", ">">>, <<"<", "p", ">", "C", "l", "a", "s", "s", " ", "S", "e", "s", "s", "i", "o", "n", "<", "/", "p", ">">>}

KeptBySpec(event) == event.event_type # <<"K", "E", "C">> \/ AcademicBySpec(event)

\* C8 as stated: the Events a pipeline returns never hold two KEC Events with
\* the same date and room_name.
C8_OneKECPerDateAndRoom ==
    (PipelineRan /\ ~run.threw) =>
        \A p, q \in 1..Len(run.returned) :
            ( /\ p # q
              /\ run.returned[p].event_type = <<"K", "E", "C">>
              /\ run.returned[q].event_type = <<"K", "E", "C">>
              /\ run.returned[p].date = run.returned[q].date )
            => run.returned[p].room_name # run.returned[q].room_name

\* C9: transformRawEventsToEvents returns a KEC Event of the merger's output
\* only if its detail panel names an academic or a class session, and returns
\* every non-KEC Event of the merger's output, unchanged and in order.
C9_KECCategoryCheck ==
    (pc = "transformRawEventsToEvents" /\ IsArray(rawData) /\ ~run.threw) =>
        /\ run.returned = SelectSeq(run.mergedEvents, KeptBySpec)
        /\ \A p \in 1..Len(run.returned) :
               run.returned[p].event_type = <<"K", "E", "C">> => AcademicBySpec(run.returned[p])
        /\ SelectSeq(run.returned, NotKEC) = SelectSeq(run.mergedEvents, NotKEC)

\* A KEC reception is discarded; a CMC booking with a non-academic panel is
\* returned as the merger left it.
C9_Witness ==
    /\ pc = "transformRawEventsToEvents"
    /\ IsArray(rawData)
    /\ Len(run.mergedEvents) = 2
    /\ run.mergedEvents[1].event_type = <<"K", "E", "C">>
    /\ run.mergedEvents[1].raw.itemDetails = KECReception
    /\ run.mergedEvents[2].event_type = <<"C", "M", "C">>
    /\ run.returned = <<run.mergedEvents[2]>>

(***************************************************************************)
(* The Adjacent-Room Merger on its own: mergeAdjacentRoomEvents applied to *)
(* a list of assembled Events, and applied again to its own output.        *)
(***************************************************************************)

\* The room labels of the four declared pairs and of a room outside them,
\* each with the subject id of the room.
MergeRooms ==
    { <<451, <<"K", "G", "H", "1", "4", "2", "0", " ", "(", "7", "0", ")">>>>, <<452, <<"K", "G", "H", "1", "4", "3", "0", " ", "(", "7", "0", ")">>>>,
      <<461, <<"K", "G", "H", "2", "4", "1", "0", "A", " ", "(", "4", "5", ")">>>>, <<462, <<"K", "G", "H", "2", "4", "1", "0", "B", " ", "(", "4", "5", ")">>>>,
      <<463, <<"K", "G", "H", "2", "4", "2", "0", "A", " ", "(", "4", "5", ")">>>>, <<464, <<"K", "G", "H", "2", "4", "2", "0", "B", " ", "(", "4", "5", ")">>>>,
      <<465, <<"K", "G", "H", "2", "4", "3", "0", "A", " ", "(", "4", "5", ")">>>>, <<466, <<"K", "G", "H", "2", "4", "3", "0", "B", " ", "(", "4", "5", ")">>>>,
      <<440, <<"K", "G", "H", "1", "1", "1", "0", " ", "(", "7", "0", ")">>>> }

\* One booking of a lecture: reservation itemId2 of a room at a start hour.
MergeRaw(itemId2, room, hour) ==
    RawItem(6200, itemId2, room[1], <<"F", "i", "n", "a", "n", "c", "e", " ", "I">>, room[2], Day1, Hours(hour, 0), Hours(hour + 1, 2), None)

\* The bookings the merger is run on: every room at 9:00, a second booking of
\* each room of the first pair at 9:00, and one room at 10:00.
MergeRaws ==
    { MergeRaw(7300, room, 9) : room \in MergeRooms }
    \cup { MergeRaw(7301, room, 9) :
             room \in { <<451, <<"K", "G", "H", "1", "4", "2", "0", " ", "(", "7", "0", ")">>>>, <<452, <<"K", "G", "H", "1", "4", "3", "0", " ", "(", "7", "0", ")">>>> } }
    \cup { MergeRaw(7310, <<451, <<"K", "G", "H", "1", "4", "2", "0", " ", "(", "7", "0", ")">>>>, 10) }

\* The longest list the merger is run on.
MaxMerge == 4

\* The Events the assembler makes of the bookings.
MergeEvents == { AssembleEvent(item, PipelineClock) : item \in MergeRaws }

\* No two members of the list are the Event of the same booking.
DistinctEvents(list) ==
    \A p, q \in 1..Len(list) : p # q => list[p].id # list[q].id

\* The lists of at most longest Events of distinct bookings.
MergeInputs(longest) ==
    { list \in UNION { [1..n -> MergeEvents] : n \in 0..longest } :
        DistinctEvents(list) }

InitMerge ==
    /\ stageInput \in MergeInputs(MaxMerge)
    /\ stageOutput = <<>>
    /\ stageAgain = <<>>
    /\ now = PipelineClock
    /\ IdIdle
    /\ TaskIdle
    /\ PipeIdle
    /\ SaveIdle
    /\ FetchIdle
    /\ pc = "ready"

MergeAdjacentRoomEvents ==
    /\ pc = "ready"
    /\ pc' = "mergeAdjacentRoomEvents"
    /\ stageOutput' = mergeAdjacentRoomEvents(stageInput)
    /\ UNCHANGED <<fetchVars, idVars, taskVars, pipeVars, stageInput, stageAgain, saveVars, now>>

MergeAgain ==
    /\ pc = "mergeAdjacentRoomEvents"
    /\ pc' = "mergeAgain"
    /\ stageAgain' = mergeAdjacentRoomEvents(stageOutput)
    /\ UNCHANGED <<fetchVars, idVars, taskVars, pipeVars, stageInput, stageOutput, saveVars, now>>

NextMerge == MergeAdjacentRoomEvents \/ MergeAgain

SpecMerge == InitMerge /\ [][NextMerge]_vars

(***************************************************************************)
(* Claims about the merger, checked under SpecMerge.                       *)
(***************************************************************************)

\* The merger has run on stageInput.
MergerRan == pc \in {"mergeAdjacentRoomEvents", "mergeAgain"}

\* Two Events belong to one group: same date, event_name and start_time.
SameGroup(a, b) ==
    a.date = b.date /\ a.event_name = b.event_name /\ a.start_time = b.start_time

\* The positions of the list that hold an Event of anchor's group in the room.
InRoom(list, anchor, room) ==
    {p \in 1..Len(list) : SameGroup(list[p], anchor) /\ list[p].room_name = room}

\* C5: for every group (date, event_name, start_time) of the input and every
\* declared pair, when the group holds an Event for each room of the pair the
\* output holds exactly one Event of the group with the merged label and
\* holds neither of the two paired Events (the first of each room); when a
\* room of the pair is missing, the output holds no Event of the group with
\* the merged label.
C5_MergesDeclaredPairs ==
    MergerRan =>
        \A g \in 1..Len(stageInput) : \A k \in 1..Len(RoomPairs) :
            LET anchor  == stageInput[g]
                firsts  == InRoom(stageInput, anchor, RoomPairs[k].first)
                seconds == InRoom(stageInput, anchor, RoomPairs[k].second)
                merged  == InRoom(stageOutput, anchor, RoomPairs[k].merged)
            IN  IF firsts # {} /\ seconds # {}
                THEN /\ Cardinality(merged) = 1
                     /\ ~Holds(stageOutput, stageInput[First(firsts)])
                     /\ ~Holds(stageOutput, stageInput[First(seconds)])
                ELSE merged = {}

\* A group with both rooms of a pair, the first room booked twice, beside a
\* room outside the pairs: the merged Event, the second booking and the other
\* room come out.
C5_Witness ==
    /\ pc = "mergeAdjacentRoomEvents"
    /\ Len(stageInput) = 4
    /\ stageInput[1].room_name = <<"G", "H", " ", "1", "4", "3", "0">>
    /\ stageInput[2].room_name = <<"G", "H", " ", "1", "4", "2", "0">>
    /\ stageInput[3].room_name = <<"G", "H", " ", "1", "4", "2", "0">>
    /\ stageInput[4].room_name = <<"G", "H", " ", "1", "1", "1", "0">>
    /\ \A p \in 1..4 : SameGroup(stageInput[p], stageInput[1])
    /\ stageOutput = << [stageInput[2] EXCEPT !.room_name = <<"G", "H", " ", "1", "4", "2", "0", "&", "3", "0">>],
                        stageInput[3], stageInput[4] >>

\* C6 as stated: running the merger on its own output returns that output.
C6_MergerIdempotent ==
    pc = "mergeAgain" => stageAgain = stageOutput

(***************************************************************************)
(* The Session Consolidator on its own: combineKECEvents applied to a list *)
(* of assembled Events.                                                    *)
(***************************************************************************)

\* One session: reservation itemId2 in a room on a day, from start to end
\* (grid units), with a detail payload.
SessionRaw(itemId2, room, date, start, end, details) ==
    RawItem(6300, itemId2, room[1], <<"L", "e", "a", "d", "i", "n", "g", " ", "T", "e", "a", "m", "s">>, room[2], date, start, end, details)

\* The sessions the consolidator is run on: four executive-education sessions
\* of one day in one room, one in that room the next day, one in another room,
\* and a lecture and a CMC booking.
KECRaws ==
    { SessionRaw(7401, <<451, <<"K", "G", "H", "1", "4", "2", "0", " ", "(", "7", "0", ")">>>>, Day1, Hours(9, 0), Hours(10, 0), KECAcademic),
      SessionRaw(7402, <<451, <<"K", "G", "H", "1", "4", "2", "0", " ", "(", "7", "0", ")">>>>, Day1, Hours(9, 2), Hours(10, 2), KECAcademic),
      SessionRaw(7403, <<451, <<"K", "G", "H", "1", "4", "2", "0", " ", "(", "7", "0", ")">>>>, Day1, Hours(10, 0), Hours(11, 0), KECAcademic),
      SessionRaw(7404, <<451, <<"K", "G", "H", "1", "4", "2", "0", " ", "(", "7", "0", ")">>>>, Day1, Hours(8, 0), Hours(12, 0), KECReception),
      SessionRaw(7405, <<451, <<"K", "G", "H", "1", "4", "2", "0", " ", "(", "7", "0", ")">>>>, Day2, Hours(9, 0), Hours(10, 0), KECAcademic),
      SessionRaw(7406, <<452, <<"K", "G", "H", "1", "4", "3", "0", " ", "(", "7", "0", ")">>>>, Day1, Hours(9, 0), Hours(10, 0), KECClass),
      SessionRaw(7407, <<451, <<"K", "G", "H", "1", "4", "2", "0", " ", "(", "7", "0", ")">>>>, Day1, Hours(9, 0), Hours(10, 0), Lecture),
      SessionRaw(7408, <<452, <<"K", "G", "H", "1", "4", "3", "0", " ", "(", "7", "0", ")">>>>, Day1, Hours(9, 0), Hours(10, 0), CMCBooking) }

\* The Events the assembler makes of the sessions.
KECEvents == { AssembleEvent(item, PipelineClock) : item \in KECRaws }

\* The longest list the consolidator is run on.
MaxKEC == 3

\* The lists of at most longest Events of distinct sessions.
KECInputs(longest) ==
    { list \in UNION { [1..n -> KECEvents] : n \in 0..longest } :
        DistinctEvents(list) }

InitKEC ==
    /\ stageInput \in KECInputs(MaxKEC)
    /\ stageOutput = <<>>
    /\ stageAgain = <<>>
    /\ now = PipelineClock
    /\ IdIdle
    /\ TaskIdle
    /\ PipeIdle
    /\ SaveIdle
    /\ FetchIdle
    /\ pc = "ready"

CombineKECEvents ==
    /\ pc = "ready"
    /\ pc' = "combineKECEvents"
    /\ stageOutput' = combineKECEvents(stageInput)
    /\ UNCHANGED <<fetchVars, idVars, taskVars, pipeVars, stageInput, stageAgain, saveVars, now>>

NextKEC == CombineKECEvents

SpecKEC == InitKEC /\ [][NextKEC]_vars

(***************************************************************************)
(* Claims about the consolidator, checked under SpecKEC.                   *)
(***************************************************************************)

\* The positions of the list that hold a KEC Event of anchor's date and room.
KECOf(list, anchor) ==
    {p \in 1..Len(list) :
        /\ list[p].event_type = <<"K", "E", "C">>
        /\ list[p].date = anchor.date
        /\ list[p].room_name = anchor.room_name}

\* The least and the greatest of a non-empty set of numbers.
Least(numbers) == CHOOSE n \in numbers : \A m \in numbers : n <= m

Greatest(numbers) == CHOOSE n \in numbers : \A m \in numbers : n >= m

\* C7: combineKECEvents returns, for every group of KEC Events of one date and
\* room_name, exactly one Event: for a group of two or more, its start_time is
\* the earliest start of the group, its end_time the latest end, its
\* instructor_names null and its resources the empty list; for a group of one,
\* the Event itself.  The non-KEC Events are returned unchanged.
C7_CombinesKECGroups ==
    pc = "combineKECEvents" =>
        /\ \A g \in 1..Len(stageInput) :
               stageInput[g].event_type = <<"K", "E", "C">> =>
                   LET members == KECOf(stageInput, stageInput[g])
                       outs    == KECOf(stageOutput, stageInput[g])
                       out     == stageOutput[First(outs)]
                   IN  /\ Cardinality(outs) = 1
                       /\ Cardinality(members) = 1 => out = stageInput[g]
                       /\ Cardinality(members) >= 2 =>
                              /\ out.start_time =
                                     TimeString(Least({stageInput[p].raw.start : p \in members}))
                              /\ out.end_time =
                                     TimeString(Greatest({stageInput[p].raw.end : p \in members}))
                              /\ out.instructor_names = None
                              /\ out.resources = <<>>
        /\ \A p \in 1..Len(stageOutput) :
               stageOutput[p].event_type = <<"K", "E", "C">> => KECOf(stageInput, stageOutput[p]) # {}
        /\ SelectSeq(stageOutput, NotKEC) = SelectSeq(stageInput, NotKEC)

\* Sessions of 09:30 to 10:30, 09:00 to 10:00 and 10:00 to 11:00 of one day
\* and room, with instructors and resources, come out as one Event of 09:00 to
\* 11:00 without instructors and resources.
C7_Witness ==
    /\ pc = "combineKECEvents"
    /\ Len(stageInput) = 3
    /\ stageInput[1].start_time = <<"0", "9", ":", "3", "0", ":", "0", "0">> /\ stageInput[1].end_time = <<"1", "0", ":", "3", "0", ":", "0", "0">>
    /\ stageInput[2].start_time = <<"0", "9", ":", "0", "0", ":", "0", "0">> /\ stageInput[2].end_time = <<"1", "0", ":", "0", "0", ":", "0", "0">>
    /\ stageInput[3].start_time = <<"1", "0", ":", "0", "0", ":", "0", "0">> /\ stageInput[3].end_time = <<"1", "1", ":", "0", "0", ":", "0", "0">>
    /\ \A p \in 1..3 : /\ stageInput[p].event_type = <<"K", "E", "C">>
                       /\ stageInput[p].instructor_names # None
                       /\ stageInput[p].resources # <<>>
    /\ Len(stageOutput) = 1
    /\ stageOutput[1].start_time = <<"0", "9", ":", "0", "0", ":", "0", "0">>
    /\ stageOutput[1].end_time = <<"1", "1", ":", "0", "0", ":", "0", "0">>
    /\ stageOutput[1].instructor_names = None
    /\ stageOutput[1].resources = <<>>
    /\ stageOutput[1].id = stageInput[1].id

(***************************************************************************)
(* The task transformer: transformEventsToTasks applied to a list of       *)
(* assembled Events.                                                       *)
(***************************************************************************)

\* The value of a callback that ends without a return statement.
Undefined == None

\* event.resources.map(...): per resource, the tasks createRecordingTasks
\* returns when the lower-cased name includes "recording", undefined otherwise.
ResourceTasks(event, clock) ==
    [r \in 1..Len(event.resources) |->
        IF Includes(ToLowerCase(event.resources[r].itemName), <<"r", "e", "c", "o", "r", "d", "i", "n", "g">>)
        THEN Some(createRecordingTasks(Some(event), Some(event.resources[r]), clock))
        ELSE Undefined]

\* resource.itemName.toLowerCase() raises a TypeError for a resource without
\* an itemName.
transformEventsToTasksThrows(events) ==
    \E p \in 1..Len(events) : \E r \in 1..Len(events[p].resources) :
        events[p].resources[r].itemName = Null

\* The outer callback evaluates the inner map and returns nothing: the result
\* holds undefined for every Event.
transformEventsToTasks(events, clock) ==
    IF transformEventsToTasksThrows(events)
    THEN [returned |-> <<>>, threw |-> TRUE]
    ELSE [returned |-> [p \in 1..Len(events) |-> Undefined], threw |-> FALSE]

\* A payload without panels whose reservation of Day1 holds one resource.
ResourceOnly(resourceName) ==
    Some([defn |-> None,
          occur |-> Some([prof |-> Some(<<
              [rsv |-> Some(<<
                  [startDt |-> <<"2", "0", "2", "5", "-", "0", "7", "-", "1", "5", "T", "0", "9", ":", "0", "0">>,
                   res |-> Some(<< [itemName |-> resourceName, quantity |-> 1,
                                    instruction |-> Null, itemId |-> 33] >>)] >>)] >>)])])

\* The sessions the transformer is run on: with a recording and a laptop
\* resource (09:00 to 10:30 and 09:00 to 10:00), with one recording resource,
\* with one resource of another kind, with an unnamed resource, and without
\* resources (no payload; no reservation on the day).
TaskRaws ==
    { SessionRaw(7501, <<451, <<"K", "G", "H", "1", "4", "2", "0", " ", "(", "7", "0", ")">>>>, Day1, Hours(9, 0), Hours(10, 2), KECAcademic),
      SessionRaw(7502, <<452, <<"K", "G", "H", "1", "4", "3", "0", " ", "(", "7", "0", ")">>>>, Day1, Hours(9, 0), Hours(10, 0), Lecture),
      SessionRaw(7503, <<440, <<"K", "G", "H", "1", "1", "1", "0", " ", "(", "7", "0", ")">>>>, Day1, Hours(9, 0), Hours(10, 2),
                 ResourceOnly(<<"K", "S", "M", "-", "K", "G", "H", "-", "V", "I", "D", "E", "O", "-", "R", "E", "C", "O", "R", "D", "I", "N", "G">>)),
      SessionRaw(7504, <<440, <<"K", "G", "H", "1", "1", "1", "0", " ", "(", "7", "0", ")">>>>, Day1, Hours(11, 0), Hours(12, 0),
                 ResourceOnly(<<"K", "S", "M", "-", "K", "G", "H", "-", "A", "V", "-", "L", "a", "p", "t", "o", "p">>)),
      SessionRaw(7505, <<440, <<"K", "G", "H", "1", "1", "1", "0", " ", "(", "7", "0", ")">>>>, Day1, Hours(13, 0), Hours(14, 0),
                 ResourceOnly(Null)),
      SessionRaw(7506, <<451, <<"K", "G", "H", "1", "4", "2", "0", " ", "(", "7", "0", ")">>>>, Day2, Hours(9, 0), Hours(10, 2), KECAcademic),
      SessionRaw(7507, <<452, <<"K", "G", "H", "1", "4", "3", "0", " ", "(", "7", "0", ")">>>>, Day1, Hours(14, 0), Hours(15, 0), None) }

\* The finalized Events of the sessions.
TaskEvents == { AssembleEvent(item, PipelineClock) : item \in TaskRaws }

\* The longest list the transformer is run on.
MaxTaskEvents == 2

TaskInputs(longest) ==
    { list \in UNION { [1..n -> TaskEvents] : n \in 0..longest } :
        DistinctEvents(list) }

InitTransformTasks ==
    /\ stageInput \in TaskInputs(MaxTaskEvents)
    /\ stageOutput = <<>>
    /\ stageAgain = <<>>
    /\ now \in Timestamps
    /\ IdIdle
    /\ TaskIdle
    /\ PipeIdle
    /\ SaveIdle
    /\ FetchIdle
    /\ pc = "ready"

TransformEventsToTasks ==
    /\ pc = "ready"
    /\ pc' = "transformEventsToTasks"
    /\ stageOutput' = transformEventsToTasks(stageInput, now)
    /\ UNCHANGED <<fetchVars, idVars, taskVars, pipeVars, stageInput, stageAgain, saveVars, now>>

NextTransformTasks == TransformEventsToTasks

SpecTransformTasks == InitTransformTasks /\ [][NextTransformTasks]_vars

\* The tasks of the Event's recording resources, one resource after another.
RECURSIVE TasksInOrder(_)
TasksInOrder(resourceTasks) ==
    IF resourceTasks = <<>> THEN <<>>
    ELSE (IF Head(resourceTasks) = Undefined THEN <<>> ELSE Head(resourceTasks)[1])
         \o TasksInOrder(Tail(resourceTasks))

\* C11 as stated: transformEventsToTasks returns, for each Event in input
\* order, the list of the RecordingTask records createRecordingTasks derives
\* from the Event's recording resources.
C11_TasksPerEvent ==
    (pc = "transformEventsToTasks" /\ ~stageOutput.threw) =>
        /\ Len(stageOutput.returned) = Len(stageInput)
        /\ \A p \in 1..Len(stageInput) :
               stageOutput.returned[p] = Some(TasksInOrder(ResourceTasks(stageInput[p], now)))

(***************************************************************************)
(* Persistence: saveToSupabase against the events table.  A step is what   *)
(* runs between two awaits; a request to the table takes effect, or fails  *)
(* without effect, in the step that awaits it.                             *)
(***************************************************************************)

\* An id that is null or undefined.
NullId == <<NullNumber>>

\* !value for a number: 0, NaN, null or undefined.
FalsyNumber(value) == value = 0 \/ value = NaN \/ value = NullNumber

\* !event.id
FalsyId(id) == id = <<>> \/ id = NullId

\* A validation that leaves item_id2 out.
RejectsEventNoItemId2(event) ==
    \/ FalsyId(event.id)
    \/ FalsyNumber(event.item_id)
    \/ ~Truthy(event.date)

\* The validation of one Event: !event.id || !event.item_id || !event.item_id2
\* || !event.date.
RejectsEvent(event) ==
    \/ FalsyId(event.id)
    \/ FalsyNumber(event.item_id)
    \/ FalsyNumber(event.item_id2)
    \/ ~Truthy(event.date)

\* The columns of a stored Event the model keeps.
Row(event, clock) ==
    [id |-> event.id, item_id |-> event.item_id, item_id2 |-> event.item_id2,
     date |-> event.date, updated_at |-> clock]

\* The ids of a list of Events.
IdsOf(events) == {events[p].id : p \in 1..Len(events)}

\* currentEventIds: the truthy ids of processedEvents.
CurrentEventIds(processedEvents) ==
    {id \in IdsOf(processedEvents) : ~FalsyId(id)}

\* {...event, updated_at: clock}
WithTimestamp(event, clock) ==
    [field \in DOMAIN event \cup {"updated_at"} |->
        IF field = "updated_at" THEN clock ELSE event[field]]

\* A variant that finds no stored Event to delete.
DeletedEventIdsNone(existingEvents, processedEvents) == {}

\* deletedEventIds: the ids of the stored Events of the date that are not ids
\* of the current scrape.
DeletedEventIds(existingEvents, processedEvents) ==
    {row.id : row \in {r \in existingEvents :
                         r.id \notin CurrentEventIds(processedEvents)}}

\* The call before its first statement.
SaveCall(processedEvents, scrapeDate, rows) ==
    [processedEvents |-> processedEvents, scrapeDate |-> scrapeDate,
     eventsWithTimestamp |-> <<>>, existingEvents |-> {}, deletedEventIds |-> {},
     requests |-> <<>>, tableAtCall |-> rows, step |-> "call"]

\* The call up to its first await: the validating map, then the select
\* request; a throw is caught, logged and thrown again.
SaveToSupabase ==
    /\ pc = "ready"
    /\ pc' = "saveToSupabase"
    /\ IF \E p \in 1..Len(save.processedEvents) : RejectsEvent(save.processedEvents[p])
       THEN save' = [save EXCEPT !.step = "thrown"]
       ELSE save' = [save EXCEPT
                        !.eventsWithTimestamp =
                            [p \in 1..Len(save.processedEvents) |->
                                WithTimestamp(save.processedEvents[p], now)],
                        !.step = "select"]
    /\ UNCHANGED <<fetchVars, idVars, taskVars, pipeVars, stageVars, table, now>>

\* The select of the stored Events of the date answers (or fails); the call
\* computes the ids to delete and goes on to the delete or to the upsert.
SelectExisting ==
    /\ pc = "saveToSupabase"
    /\ save.step = "select"
    /\ \E fetchError \in BOOLEAN :
          IF fetchError
          THEN save' = [save EXCEPT !.requests = Append(@, "select"), !.step = "thrown"]
          ELSE LET existingEvents  == {row \in table : row.date = save.scrapeDate}
                   deletedEventIds == DeletedEventIds(existingEvents, save.processedEvents)
               IN  save' = [save EXCEPT
                               !.requests = Append(@, "select"),
                               !.existingEvents = existingEvents,
                               !.deletedEventIds = deletedEventIds,
                               !.step = IF deletedEventIds # {} THEN "delete" ELSE "upsert"]
    /\ UNCHANGED <<fetchVars, idVars, taskVars, pipeVars, stageVars, table, now, pc>>

\* The delete of the ids that left the scrape takes effect (or fails).
DeleteRemoved ==
    /\ pc = "saveToSupabase"
    /\ save.step = "delete"
    /\ \E deleteError \in BOOLEAN :
          IF deleteError
          THEN /\ save' = [save EXCEPT !.requests = Append(@, "delete"), !.step = "thrown"]
               /\ table' = table
          ELSE /\ save' = [save EXCEPT !.requests = Append(@, "delete"), !.step = "upsert"]
               /\ table' = {row \in table : row.id \notin save.deletedEventIds}
    /\ UNCHANGED <<fetchVars, idVars, taskVars, pipeVars, stageVars, now, pc>>

\* The upsert on conflict of id takes effect (or fails).
UpsertCurrent ==
    /\ pc = "saveToSupabase"
    /\ save.step = "upsert"
    /\ \E error \in BOOLEAN :
          IF error
          THEN /\ save' = [save EXCEPT !.requests = Append(@, "upsert"), !.step = "thrown"]
               /\ table' = table
          ELSE /\ save' = [save EXCEPT !.requests = Append(@, "upsert"), !.step = "returned"]
               /\ table' = {row \in table : row.id \notin IdsOf(save.eventsWithTimestamp)}
                             \cup {Row(save.eventsWithTimestamp[p],
                                       save.eventsWithTimestamp[p].updated_at) :
                                     p \in 1..Len(save.eventsWithTimestamp)}
    /\ UNCHANGED <<fetchVars, idVars, taskVars, pipeVars, stageVars, now, pc>>

NextSave == SaveToSupabase \/ SelectExisting \/ DeleteRemoved \/ UpsertCurrent

\* A booking of the scrape: ids, room and day.
SaveRaw(itemId, itemId2, room, date) ==
    RawItem(itemId, itemId2, room[1], <<"F", "i", "n", "a", "n", "c", "e", " ", "I">>, room[2], date, Hours(9, 0), Hours(10, 0), None)

\* The Event processData makes of a booking.
SaveEvent(itemId, itemId2, room, date) ==
    AssembleEventLegacy(SaveRaw(itemId, itemId2, room, date), PipelineClock)

\* The Events handed to saveToSupabase: two Events with every identity field,
\* a real event with itemId 0, an Event whose kept digits are all 0 (id 0),
\* and Events without an item_id, an item_id2, an id or a date.
SaveEvents ==
    { SaveEvent(6400, 7601, <<440, <<"K", "G", "H", "1", "1", "1", "0", " ", "(", "7", "0", ")">>>>, Day1),
      SaveEvent(6400, 7602, <<452, <<"K", "G", "H", "1", "4", "3", "0", " ", "(", "7", "0", ")">>>>, Day1),
      SaveEvent(0, 7603, <<440, <<"K", "G", "H", "1", "1", "1", "0", " ", "(", "7", "0", ")">>>>, Day1),
      SaveEvent(1000000, 2000000, <<100000, <<"K", "G", "H", "1", "1", "1", "0", " ", "(", "7", "0", ")">>>>, Day1),
      [SaveEvent(6400, 7605, <<440, <<"K", "G", "H", "1", "1", "1", "0", " ", "(", "7", "0", ")">>>>, Day1) EXCEPT !.item_id = NullNumber],
      [SaveEvent(6400, 7606, <<440, <<"K", "G", "H", "1", "1", "1", "0", " ", "(", "7", "0", ")">>>>, Day1) EXCEPT !.item_id2 = NullNumber],
      [SaveEvent(6400, 7607, <<440, <<"K", "G", "H", "1", "1", "1", "0", " ", "(", "7", "0", ")">>>>, Day1) EXCEPT !.id = NullId],
      [SaveEvent(6400, 7608, <<440, <<"K", "G", "H", "1", "1", "1", "0", " ", "(", "7", "0", ")">>>>, Day1) EXCEPT !.date = Null] }

\* The clock of the run that stored the rows the table starts with.
StoredClock == <<"2", "0", "2", "5", "-", "0", "7", "-", "1", "5", "T", "0", "6", ":", "0", "0", ":", "0", "0", ".", "0", "0", "0", "Z">>

\* Rows a former run stored: an Event still scraped, an Event of the date that
\* left the scrape, and an Event of the next day.
StoredRows ==
    { Row(SaveEvent(6400, 7601, <<440, <<"K", "G", "H", "1", "1", "1", "0", " ", "(", "7", "0", ")">>>>, Day1), StoredClock),
      Row(SaveEvent(6400, 7609, <<451, <<"K", "G", "H", "1", "4", "2", "0", " ", "(", "7", "0", ")">>>>, Day1), StoredClock),
      Row(SaveEvent(6400, 7610, <<440, <<"K", "G", "H", "1", "1", "1", "0", " ", "(", "7", "0", ")">>>>, Day2), StoredClock) }

\* The longest batch handed to saveToSupabase.
MaxBatch == 2

SaveBatches(longest) ==
    { list \in UNION { [1..n -> SaveEvents] : n \in 0..longest } :
        DistinctEvents(list) }

InitSave ==
    /\ table \in SUBSET StoredRows
    /\ \E batch \in SaveBatches(MaxBatch) :
           save = SaveCall(batch, DatePart(Day1), table)
    /\ now = PipelineClock
    /\ IdIdle
    /\ TaskIdle
    /\ PipeIdle
    /\ StageIdle
    /\ FetchIdle
    /\ pc = "ready"

SpecSave == InitSave /\ [][NextSave]_vars

(***************************************************************************)
(* Claims about saveToSupabase, checked under SpecSave.                    *)
(***************************************************************************)

\* A required identity field of the Event is missing (null or undefined).
MissingIdentity(event) ==
    \/ event.id = NullId
    \/ event.item_id = NullNumber
    \/ event.item_id2 = NullNumber
    \/ event.date = Null

\* C12: when an Event of the batch misses its id, item_id, item_id2 or date,
\* the call throws before any request to the events table: no select, delete
\* or upsert is issued and the table stays as it was.
C12_MissingIdentityThrows ==
    ( /\ pc = "saveToSupabase"
      /\ \E p \in 1..Len(save.processedEvents) : MissingIdentity(save.processedEvents[p]) )
    => /\ save.step = "thrown"
       /\ save.requests = <<>>
       /\ table = save.tableAtCall

\* A batch of a complete Event and an Event without item_id2, on a table with
\* a row that left the scrape: the call has thrown, the row is still stored.
C12_Witness ==
    /\ pc = "saveToSupabase"
    /\ Len(save.processedEvents) = 2
    /\ ~RejectsEvent(save.processedEvents[1])
    /\ save.processedEvents[2].item_id2 = NullNumber
    /\ save.step = "thrown"
    /\ table = StoredRows


(***************************************************************************)
(* Claims about the pipelines' handling of missing input and structure,    *)
(* checked under SpecPipeline.                                             *)
(***************************************************************************)

\* C13: handed an absent value or a value that is not a sequence, either
\* pipeline returns the empty Event list and raises no error.
C13_AbsentInputIsEmpty ==
    (pc \in {"transformRawEventsToEvents", "processData"} /\ rawData \in {None, NotAnArray})
        => run.returned = <<>> /\ ~run.threw

\* transformRawEventsToEvents has returned the empty list for an absent value.
C13_Witness ==
    /\ pc = "transformRawEventsToEvents"
    /\ rawData = None
    /\ run.returned = <<>>
    /\ ~run.threw

\* The positions of the list that hold the Event made of the raw item.
EventsOf(list, item) == {p \in 1..Len(list) : list[p].raw = item}

\* C14 as stated: a raw item without a subject item date that passes the
\* filter does not make the pipeline raise, and its Event is emitted with the
\* current date as its date, whatever reservations its payload holds.
C14_DatelessItemIsEmitted ==
    PipelineRan =>
        \A p \in 1..Len(run.filteredData) :
            run.filteredData[p].subject_item_date = Null =>
                /\ ~run.threw
                /\ \E q \in EventsOf(run.processedEvents, run.filteredData[p]) :
                       run.processedEvents[q].date = DatePart(now)

\* C15: a raw item without a detail payload that passes the filter makes no
\* extractor raise and yields exactly one Event, whose event_type,
\* organization, instructor_names and lecture_title are null and whose
\* resources are the empty list.
C15_NoPayloadYieldsBareEvent ==
    PipelineRan =>
        /\ (\A p \in 1..Len(run.filteredData) : run.filteredData[p].itemDetails = None)
               => ~run.threw
        /\ ~run.threw =>
               \A p \in 1..Len(run.filteredData) :
                   run.filteredData[p].itemDetails = None =>
                       /\ Cardinality(EventsOf(run.processedEvents, run.filteredData[p])) = 1
                       /\ \A q \in EventsOf(run.processedEvents, run.filteredData[p]) :
                              /\ run.processedEvents[q].event_type = Null
                              /\ run.processedEvents[q].organization = Null
                              /\ run.processedEvents[q].instructor_names = None
                              /\ run.processedEvents[q].lecture_title = Null
                              /\ run.processedEvents[q].resources = <<>>

\* One item without a payload, with a real name and room, has become one
\* Event without type, organization, instructors, title and resources.
C15_Witness ==
    /\ pc = "transformRawEventsToEvents"
    /\ IsArray(rawData)
    /\ Len(rawData[1]) = 1
    /\ rawData[1][1].itemDetails = None
    /\ rawData[1][1].itemId = 5
    /\ ~run.threw
    /\ Len(run.processedEvents) = 1
    /\ run.processedEvents[1].raw = rawData[1][1]
    /\ run.processedEvents[1].event_type = Null
    /\ run.processedEvents[1].resources = <<>>
    /\ run.processedEvents[1].room_name = <<"G", "H", " ", "1", "1", "1", "0">>

\* The set of the Events of a list.
EventSet(list) == {list[p] : p \in 1..Len(list)}

\* C16 as stated: a second run of a pipeline on the same raw input returns
\* the same set of Events as the first, every field of every Event equal.
C16_RunTwiceSameEvents ==
    ( /\ pc \in {"transformRawEventsToEventsAgain", "processDataAgain"}
      /\ IsArray(rawData)
      /\ ~run.threw )
    => /\ ~stageAgain.threw
       /\ EventSet(stageAgain.returned) = EventSet(run.returned)

(***************************************************************************)
(* The merger on a reordered list: mergeAdjacentRoomEvents applied to a    *)
(* list of Events and to a permutation of that list.                       *)
(***************************************************************************)

\* The longest list whose permutations the merger is run on.
MaxPermuted == 3

\* The rearrangements of a list: the same members in every order.
Reorderings(list) ==
    { [p \in 1..Len(list) |-> list[f[p]]] :
        f \in { g \in [1..Len(list) -> 1..Len(list)] :
                  \A p, q \in 1..Len(list) : p # q => g[p] # g[q] } }

InitMergeOrder ==
    /\ stageInput \in MergeInputs(MaxPermuted)
    /\ stageOutput = <<>>
    /\ stageAgain = <<>>
    /\ now = PipelineClock
    /\ IdIdle
    /\ TaskIdle
    /\ PipeIdle
    /\ SaveIdle
    /\ FetchIdle
    /\ pc = "ready"

\* The merger run on the same Events in another order.
MergePermuted ==
    /\ pc = "mergeAdjacentRoomEvents"
    /\ pc' = "mergePermuted"
    /\ \E permuted \in Reorderings(stageInput) :
           stageAgain' = mergeAdjacentRoomEvents(permuted)
    /\ UNCHANGED <<fetchVars, idVars, taskVars, pipeVars, stageInput, stageOutput, saveVars, now>>

NextMergeOrder == MergeAdjacentRoomEvents \/ MergePermuted

SpecMergeOrder == InitMergeOrder /\ [][NextMergeOrder]_vars

\* C17 as stated: the merger returns the same set of Events for a list and
\* for every permutation of it, also when a group holds more than one Event
\* of the same room.
C17_MergerOrderIndependent ==
    pc = "mergePermuted" => EventSet(stageAgain) = EventSet(stageOutput)

(***************************************************************************)
(* The consolidator on a reordered list and on its own output:             *)
(* combineKECEvents applied to a list of Events, then to a permutation of  *)
(* that list or to what it returned.                                       *)
(***************************************************************************)

InitKECOrder ==
    /\ stageInput \in KECInputs(MaxPermuted)
    /\ stageOutput = <<>>
    /\ stageAgain = <<>>
    /\ now = PipelineClock
    /\ IdIdle
    /\ TaskIdle
    /\ PipeIdle
    /\ SaveIdle
    /\ FetchIdle
    /\ pc = "ready"

\* The consolidator run on the same Events in another order.
CombinePermuted ==
    /\ pc = "combineKECEvents"
    /\ pc' = "combinePermuted"
    /\ \E permuted \in Reorderings(stageInput) :
           stageAgain' = combineKECEvents(permuted)
    /\ UNCHANGED <<fetchVars, idVars, taskVars, pipeVars, stageInput, stageOutput, saveVars, now>>

\* The consolidator run on what it returned.
CombineAgain ==
    /\ pc = "combineKECEvents"
    /\ pc' = "combineAgain"
    /\ stageAgain' = combineKECEvents(stageOutput)
    /\ UNCHANGED <<fetchVars, idVars, taskVars, pipeVars, stageInput, stageOutput, saveVars, now>>

NextKECOrder == CombineKECEvents \/ CombinePermuted \/ CombineAgain

SpecKECOrder == InitKECOrder /\ [][NextKECOrder]_vars

\* C18 as stated: the consolidator returns the same set of Events for a list
\* and for every permutation of it, and returns its own output unchanged.
C18_CombinerOrderIndependentIdempotent ==
    /\ pc = "combinePermuted" => EventSet(stageAgain) = EventSet(stageOutput)
    /\ pc = "combineAgain" => stageAgain = stageOutput

(***************************************************************************)
(* Two calls of the Identity Generator: generateDeterministicId called on  *)
(* one argument triple and then on another.                                *)
(***************************************************************************)

\* Argument values of the two calls: the least numerals, the least numeral
\* that reaches the next field of the sum, and numerals whose kept digits
\* are all zero.
IdPairValues == {0, 1, 10000, 100000, 1000000}

InitIdPair ==
    /\ idArgs \in IdPairValues \X IdPairValues \X IdPairValues
    /\ idResult = <<>>
    /\ idEarlier = None
    /\ TaskIdle
    /\ PipeIdle
    /\ StageIdle
    /\ now = <<>>
    /\ SaveIdle
    /\ FetchIdle
    /\ pc = "ready"

\* A later call on another argument triple; the earlier call is remembered.
GenerateIdAgain ==
    /\ pc = "generateDeterministicId"
    /\ pc' = "generateDeterministicIdAgain"
    /\ idEarlier' = Some([args |-> idArgs, returned |-> idResult])
    /\ idArgs' \in IdPairValues \X IdPairValues \X IdPairValues
    /\ idResult' = generateDeterministicId(idArgs'[1], idArgs'[2], idArgs'[3])
    /\ UNCHANGED <<fetchVars, taskVars, pipeVars, stageVars, saveVars, now>>

NextIdPair == GenerateId \/ GenerateIdAgain

SpecIdPair == InitIdPair /\ [][NextIdPair]_vars

\* The digits of the triple that generateDeterministicId keeps.
KeptDigits(args) == <<args[1] % 1000000, args[2] % 1000000, args[3] % 100000>>

\* C19 as stated: two triples get the same id only if their kept trailing
\* digits coincide in all three positions.
C19_SameIdOnlyForSameKeptDigits ==
    ( /\ pc = "generateDeterministicIdAgain"
      /\ idResult = idEarlier[1].returned )
    => KeptDigits(idArgs) = KeptDigits(idEarlier[1].args)

\* C20 as stated: every Event that transformRawEventsToEvents returns passes
\* the required-field validation of saveToSupabase, an Event of a kept item
\* with itemId = 0 included.
C20_ReturnedEventsPassValidation ==
    ( /\ pc = "transformRawEventsToEvents"
      /\ IsArray(rawData)
      /\ ~run.threw )
    => \A p \in 1..Len(run.returned) : ~RejectsEvent(run.returned[p])

\* C21 as stated: when the raw items that survive the filter have pairwise
\* distinct (itemId, itemId2, subjectItemId) triples, the Events that one run
\* of transformRawEventsToEvents returns have pairwise distinct ids.
C21_ReturnedIdsDistinct ==
    ( /\ pc = "transformRawEventsToEvents"
      /\ IsArray(rawData)
      /\ ~run.threw
      /\ DistinctTriples(run.filteredData) )
    => \A p, q \in 1..Len(run.returned) :
           p # q => run.returned[p].id # run.returned[q].id

(***************************************************************************)
(* Claims about what saveToSupabase leaves in the events table, checked    *)
(* under SpecSave.                                                         *)
(***************************************************************************)

\* The ids the rows of the date carry.
StoredIds(rows, date) == {row.id : row \in {r \in rows : r.date = date}}

\* The ids stored for the date at the call that the batch does not carry.
StaleIds == StoredIds(save.tableAtCall, save.scrapeDate) \ IdsOf(save.processedEvents)

\* C22: after saveToSupabase returns for a batch whose Events all have the
\* scrape date, the ids stored for the date are exactly the ids of the batch;
\* the ids stored before and absent from the batch were deleted by a delete
\* request issued before the upsert; with an empty batch no Event of the date
\* is stored any more.
C22_TableMatchesScrape ==
    ( /\ pc = "saveToSupabase"
      /\ save.step = "returned"
      /\ \A p \in 1..Len(save.processedEvents) :
             save.processedEvents[p].date = save.scrapeDate )
    => /\ StoredIds(table, save.scrapeDate) = IdsOf(save.processedEvents)
       /\ \A row \in table : row.id \notin StaleIds
       /\ save.deletedEventIds = StaleIds
       /\ save.requests = IF StaleIds # {} THEN <<"select", "delete", "upsert">>
                          ELSE <<"select", "upsert">>
       /\ save.processedEvents = <<>> => StoredIds(table, save.scrapeDate) = {}

\* A batch of an Event already stored and a new Event, on a table that holds
\* an Event of the date that left the scrape: the stale row was deleted before
\* the upsert and the date holds the two ids of the batch.
C22_Witness ==
    /\ pc = "saveToSupabase"
    /\ save.step = "returned"
    /\ save.tableAtCall = StoredRows
    /\ Len(save.processedEvents) = 2
    /\ Cardinality(StaleIds) = 1
    /\ IdsOf(save.processedEvents) \cap StoredIds(save.tableAtCall, save.scrapeDate) # {}
    /\ save.requests = <<"select", "delete", "upsert">>
    /\ StoredIds(table, save.scrapeDate) = IdsOf(save.processedEvents)
    /\ Cardinality(table) = 3

\* An empty batch on a table holding Events of the date: none is left.
C22_EmptyBatchWitness ==
    /\ pc = "saveToSupabase"
    /\ save.step = "returned"
    /\ save.processedEvents = <<>>
    /\ save.tableAtCall = StoredRows
    /\ StoredIds(table, save.scrapeDate) = {}
    /\ Cardinality(table) = 1

(***************************************************************************)
(* Two scrape runs of one date that overlap: the workflow starts a run on  *)
(* every tick of its schedule and on dispatch, without a concurrency       *)
(* group, and each run ends in one saveToSupabase call whose select,       *)
(* delete and upsert are separate requests to the shared events table.     *)
(* save is the pair of the two calls.                                      *)
(***************************************************************************)

\* The runs that overlap.
Runs == {1, 2}

\* The Events the two runs scraped: two complete Events and a real event with
\* itemId 0.
OverlapEvents ==
    { SaveEvent(6400, 7601, <<440, <<"K", "G", "H", "1", "1", "1", "0", " ", "(", "7", "0", ")">>>>, Day1),
      SaveEvent(6400, 7602, <<452, <<"K", "G", "H", "1", "4", "3", "0", " ", "(", "7", "0", ")">>>>, Day1),
      SaveEvent(0, 7603, <<440, <<"K", "G", "H", "1", "1", "1", "0", " ", "(", "7", "0", ")">>>>, Day1) }

OverlapBatches(longest) ==
    { list \in UNION { [1..n -> OverlapEvents] : n \in 0..longest } :
        DistinctEvents(list) }

InitOverlap ==
    /\ table \in SUBSET StoredRows
    /\ \E first, second \in OverlapBatches(MaxBatch) :
           save = << SaveCall(first, DatePart(Day1), table),
                     SaveCall(second, DatePart(Day1), table) >>
    /\ now = PipelineClock
    /\ IdIdle
    /\ TaskIdle
    /\ PipeIdle
    /\ StageIdle
    /\ FetchIdle
    /\ pc = "ready"

\* A run reaches its saveToSupabase call: the validating map, up to the
\* first await.
OverlapSaveToSupabase(r) ==
    /\ save[r].step = "call"
    /\ pc' = "saveToSupabase"
    /\ IF \E p \in 1..Len(save[r].processedEvents) : RejectsEvent(save[r].processedEvents[p])
       THEN save' = [save EXCEPT ![r].step = "thrown"]
       ELSE save' = [save EXCEPT
                        ![r].eventsWithTimestamp =
                            [p \in 1..Len(save[r].processedEvents) |->
                                WithTimestamp(save[r].processedEvents[p], now)],
                        ![r].step = "select"]
    /\ UNCHANGED <<fetchVars, idVars, taskVars, pipeVars, stageVars, table, now>>

\* The select of a run answers with the rows the table holds at that moment.
OverlapSelectExisting(r) ==
    /\ save[r].step = "select"
    /\ \E fetchError \in BOOLEAN :
          IF fetchError
          THEN save' = [save EXCEPT ![r].requests = Append(@, "select"), ![r].step = "thrown"]
          ELSE LET existingEvents  == {row \in table : row.date = save[r].scrapeDate}
                   deletedEventIds == DeletedEventIds(existingEvents, save[r].processedEvents)
               IN  save' = [save EXCEPT
                               ![r].requests = Append(@, "select"),
                               ![r].existingEvents = existingEvents,
                               ![r].deletedEventIds = deletedEventIds,
                               ![r].step = IF deletedEventIds # {} THEN "delete" ELSE "upsert"]
    /\ UNCHANGED <<fetchVars, idVars, taskVars, pipeVars, stageVars, table, now, pc>>

\* The delete of a run takes effect on the table as it is at that moment.
OverlapDeleteRemoved(r) ==
    /\ save[r].step = "delete"
    /\ \E deleteError \in BOOLEAN :
          IF deleteError
          THEN /\ save' = [save EXCEPT ![r].requests = Append(@, "delete"), ![r].step = "thrown"]
               /\ table' = table
          ELSE /\ save' = [save EXCEPT ![r].requests = Append(@, "delete"), ![r].step = "upsert"]
               /\ table' = {row \in table : row.id \notin save[r].deletedEventIds}
    /\ UNCHANGED <<fetchVars, idVars, taskVars, pipeVars, stageVars, now, pc>>

\* The upsert of a run takes effect on the table as it is at that moment.
OverlapUpsertCurrent(r) ==
    /\ save[r].step = "upsert"
    /\ \E error \in BOOLEAN :
          IF error
          THEN /\ save' = [save EXCEPT ![r].requests = Append(@, "upsert"), ![r].step = "thrown"]
               /\ table' = table
          ELSE /\ save' = [save EXCEPT ![r].requests = Append(@, "upsert"), ![r].step = "returned"]
               /\ table' = {row \in table : row.id \notin IdsOf(save[r].eventsWithTimestamp)}
                             \cup {Row(save[r].eventsWithTimestamp[p],
                                       save[r].eventsWithTimestamp[p].updated_at) :
                                     p \in 1..Len(save[r].eventsWithTimestamp)}
    /\ UNCHANGED <<fetchVars, idVars, taskVars, pipeVars, stageVars, now, pc>>

NextOverlap ==
    \E r \in Runs :
        \/ OverlapSaveToSupabase(r)
        \/ OverlapSelectExisting(r)
        \/ OverlapDeleteRemoved(r)
        \/ OverlapUpsertCurrent(r)

SpecOverlap == InitOverlap /\ [][NextOverlap]_vars

\* C23 as stated: when the two overlapping calls have both returned, the ids
\* stored for the date are exactly the ids of one of the two runs.
C23_OverlapLeavesOneRun ==
    (\A r \in Runs : save[r].step = "returned")
        => \E r \in Runs :
               StoredIds(table, save[r].scrapeDate) = IdsOf(save[r].processedEvents)

(***************************************************************************)
(* The acquisition step: main launches the browser with initBrowser and    *)
(* calls fetchData, which opens a context, signs in, reads the             *)
(* availability data and the details, and on an error whose message says   *)
(* the browser has been closed calls initBrowser and then itself again.    *)
(* The browser process may die at any moment of the call.                  *)
(***************************************************************************)

\* The most calls of fetchData from its own catch block the model follows.
MaxRetries == 3

\* The most times the browser process dies during a run.
MaxClosings == 1

\* initBrowser: launches a browser only while the variable browser is unset
\* (handle 0); a set variable is returned as it is, closed or not.
initBrowser(b) ==
    IF b.handle = 0
    THEN [launches |-> b.launches + 1, handle |-> b.launches + 1, open |-> TRUE]
    ELSE b

\* error.message.includes('Target page, context or browser has been closed')
SaysBrowserClosed(error) == error = "closed"

\* What the availability request answers: no subjects, or the items of the
\* subjects.
Availabilities(longest) == {None} \cup {Some(list) : list \in ListsOver(OverlapRaws, longest)}

InitFetch ==
    /\ browser = [launches |-> 0, handle |-> 0, open |-> FALSE]
    /\ fetch = [step |-> "main", error |-> "none", retries |-> 0, closings |-> 0,
                usedHandle |-> 0, usedOpen |-> FALSE,
                rawData |-> None, returned |-> None]
    /\ now = PipelineClock
    /\ IdIdle
    /\ TaskIdle
    /\ PipeIdle
    /\ StageIdle
    /\ SaveIdle
    /\ pc = "ready"

\* main: browser = await initBrowser(), then fetchData(date) is called.
Main ==
    /\ pc = "ready"
    /\ pc' = "fetchData"
    /\ browser' = initBrowser(browser)
    /\ fetch' = [fetch EXCEPT !.step = "newContext"]
    /\ UNCHANGED <<idVars, taskVars, pipeVars, stageVars, saveVars, now>>

\* The browser process dies: every later use of it fails.
BrowserCloses ==
    /\ pc = "fetchData"
    /\ fetch.step \in {"newContext", "session", "availability", "details"}
    /\ browser.open
    /\ fetch.closings < MaxClosings
    /\ browser' = [browser EXCEPT !.open = FALSE]
    /\ fetch' = [fetch EXCEPT !.closings = @ + 1]
    /\ UNCHANGED <<idVars, taskVars, pipeVars, stageVars, saveVars, now, pc>>

\* browser.newContext() and context.newPage(), outside the inner try.
NewContext ==
    /\ pc = "fetchData"
    /\ fetch.step = "newContext"
    /\ fetch' = IF browser.open
                THEN [fetch EXCEPT !.step = "session",
                                   !.usedHandle = browser.handle, !.usedOpen = TRUE]
                ELSE [fetch EXCEPT !.step = "catch", !.error = "closed",
                                   !.usedHandle = browser.handle, !.usedOpen = FALSE]
    /\ UNCHANGED <<browser, idVars, taskVars, pipeVars, stageVars, saveVars, now, pc>>

\* The navigation, the sign-in and the reading of the cookies on the page.
Session ==
    /\ pc = "fetchData"
    /\ fetch.step = "session"
    /\ IF browser.open
       THEN \E failed \in BOOLEAN :
                fetch' = IF failed
                         THEN [fetch EXCEPT !.step = "finally", !.error = "other"]
                         ELSE [fetch EXCEPT !.step = "availability"]
       ELSE fetch' = [fetch EXCEPT !.step = "finally", !.error = "closed"]
    /\ UNCHANGED <<browser, idVars, taskVars, pipeVars, stageVars, saveVars, now, pc>>

\* The availability request and the reading of its answer.
Availability ==
    /\ pc = "fetchData"
    /\ fetch.step = "availability"
    /\ \/ fetch' = [fetch EXCEPT !.step = "finally", !.error = "other"]
       \/ \E answer \in Availabilities(MaxRaw) :
              fetch' = IF answer = None
                       THEN [fetch EXCEPT !.step = "finally", !.rawData = None]
                       ELSE [fetch EXCEPT !.step = "details", !.rawData = answer]
    /\ UNCHANGED <<browser, idVars, taskVars, pipeVars, stageVars, saveVars, now, pc>>

\* The detail requests: a failed one leaves its item with itemDetails null.
DetailRequests ==
    /\ pc = "fetchData"
    /\ fetch.step = "details"
    /\ \E failed \in SUBSET (1..Len(fetch.rawData[1])) :
           fetch' = [fetch EXCEPT
                        !.step = "finally",
                        !.returned =
                            Some([p \in 1..Len(fetch.rawData[1]) |->
                                    IF p \in failed
                                    THEN [fetch.rawData[1][p] EXCEPT !.itemDetails = None]
                                    ELSE fetch.rawData[1][p]])]
    /\ UNCHANGED <<browser, idVars, taskVars, pipeVars, stageVars, saveVars, now, pc>>

\* finally: context.close(); then the return, or the catch block.
Finally ==
    /\ pc = "fetchData"
    /\ fetch.step = "finally"
    /\ fetch' = [fetch EXCEPT !.step = IF fetch.error = "none" THEN "returned" ELSE "catch"]
    /\ UNCHANGED <<browser, idVars, taskVars, pipeVars, stageVars, saveVars, now, pc>>

\* catch: on the closed-browser message, await initBrowser() and
\* return fetchData(startDate); every other error is thrown again.
Catch ==
    /\ pc = "fetchData"
    /\ fetch.step = "catch"
    /\ IF SaysBrowserClosed(fetch.error)
       THEN /\ fetch.retries < MaxRetries
            /\ browser' = initBrowser(browser)
            /\ fetch' = [fetch EXCEPT !.step = "newContext", !.error = "none",
                                      !.retries = @ + 1]
       ELSE /\ browser' = browser
            /\ fetch' = [fetch EXCEPT !.step = "thrown"]
    /\ UNCHANGED <<idVars, taskVars, pipeVars, stageVars, saveVars, now, pc>>

NextFetch ==
    \/ Main
    \/ BrowserCloses
    \/ NewContext
    \/ Session
    \/ Availability
    \/ DetailRequests
    \/ Finally
    \/ Catch

SpecFetch == InitFetch /\ [][NextFetch]_vars

\* C24 as stated: after a closed-browser error fetchData retries on a browser
\* that was launched anew and is open, so the call comes to an end: it is
\* called from its catch block at most once for every death of the browser.
C24_RetryUsesNewBrowser ==
    ( /\ pc = "fetchData"
      /\ fetch.retries > 0
      /\ fetch.step \notin {"newContext", "main"} )
    => /\ fetch.usedOpen
       /\ browser.launches > 1
       /\ fetch.retries <= fetch.closings

(***************************************************************************)
(* Claims about what the merger copies and what it passes through, checked *)
(* under SpecMergeOrder.                                                   *)
(***************************************************************************)

\* The pairs whose merged label the Event carries.
PairsOfLabel(event) ==
    {k \in 1..Len(RoomPairs) : event.room_name = RoomPairs[k].merged}

\* The position of the input is consumed by a merge: it is the first Event of
\* a room of a pair whose two rooms its group holds.
Consumed(p) ==
    \E k \in 1..Len(RoomPairs) :
        LET firsts  == InRoom(stageInput, stageInput[p], RoomPairs[k].first)
            seconds == InRoom(stageInput, stageInput[p], RoomPairs[k].second)
        IN  /\ firsts # {}
            /\ seconds # {}
            /\ p \in {First(firsts), First(seconds)}

\* C25: every Event of the output with a merged label is the first Event of
\* the pair's first room in its group, with only room_name replaced, whatever
\* the order of the two rooms in the input; every other Event of the output
\* is an Event of the input, and every Event of the input that no merge
\* consumed is in the output as it was.
C25_MergeCopiesFirstRoom ==
    pc = "mergeAdjacentRoomEvents" =>
        /\ \A q \in 1..Len(stageOutput) :
               IF PairsOfLabel(stageOutput[q]) # {}
               THEN \A k \in PairsOfLabel(stageOutput[q]) :
                        LET firsts  == InRoom(stageInput, stageOutput[q], RoomPairs[k].first)
                            seconds == InRoom(stageInput, stageOutput[q], RoomPairs[k].second)
                        IN  /\ firsts # {}
                            /\ seconds # {}
                            /\ stageOutput[q] =
                                   [stageInput[First(firsts)]
                                       EXCEPT !.room_name = RoomPairs[k].merged]
               ELSE Holds(stageInput, stageOutput[q])
        /\ \A p \in 1..Len(stageInput) :
               ~Consumed(p) => Holds(stageOutput, stageInput[p])

\* The second room of a pair listed before the first, beside a lecture at
\* another hour: the merged Event has the ids of the first room's Event, not
\* of the Event listed first, and the lone lecture comes out as it was.
C25_Witness ==
    /\ pc = "mergeAdjacentRoomEvents"
    /\ Len(stageInput) = 3
    /\ stageInput[1].room_name = <<"G", "H", " ", "2", "4", "1", "0", "B">>
    /\ stageInput[2].room_name = <<"G", "H", " ", "2", "4", "1", "0", "A">>
    /\ SameGroup(stageInput[1], stageInput[2])
    /\ ~SameGroup(stageInput[3], stageInput[1])
    /\ Len(stageOutput) = 2
    /\ stageOutput[1] = [stageInput[2] EXCEPT !.room_name = <<"G", "H", " ", "2", "4", "1", "0", "A", "&", "B">>]
    /\ stageOutput[1].id # stageInput[1].id
    /\ stageOutput[2] = stageInput[3]

\* How many Events of the list carry the id.
CountOfId(list, id) == Cardinality({p \in 1..Len(list) : list[p].id = id})

\* The positions of the input a merge drops: the first Event of the second
\* room of a pair whose two rooms the group holds.  There is one per merge.
DroppedByMerge ==
    {p \in 1..Len(stageInput) :
        \E k \in 1..Len(RoomPairs) :
            LET firsts  == InRoom(stageInput, stageInput[p], RoomPairs[k].first)
                seconds == InRoom(stageInput, stageInput[p], RoomPairs[k].second)
            IN  firsts # {} /\ seconds # {} /\ p = First(seconds)}

\* C26: the ids of the output, counted with repetition, are the ids of the
\* input without the id of the second room's Event of every merge; so the
\* output is shorter than the input by the number of merges.
C26_MergeConservesEvents ==
    pc = "mergeAdjacentRoomEvents" =>
        /\ \A id \in IdsOf(stageInput) \cup IdsOf(stageOutput) :
               CountOfId(stageOutput, id) =
                   CountOfId(stageInput, id)
                       - Cardinality({p \in DroppedByMerge : stageInput[p].id = id})
        /\ Len(stageOutput) = Len(stageInput) - Cardinality(DroppedByMerge)

\* A pair merged beside a second booking of its second room: of three
\* Events two come out, and the id of the first booking of the second room
\* is the one that is gone.
C26_Witness ==
    /\ pc = "mergeAdjacentRoomEvents"
    /\ Len(stageInput) = 3
    /\ stageInput[1].room_name = <<"G", "H", " ", "1", "4", "3", "0">>
    /\ stageInput[2].room_name = <<"G", "H", " ", "1", "4", "3", "0">>
    /\ DroppedByMerge = {1}
    /\ Len(stageOutput) = 2
    /\ IdsOf(stageOutput) = {stageInput[2].id, stageInput[3].id}

(***************************************************************************)
(* The Panel Extractor on its own: getEventType applied to a raw item.     *)
(***************************************************************************)

\* The panels the payloads are made of: the two Kellogg programs (the second
\* with the CMC department and a type name beside it), the CMC department
\* with a type name, a plain type name, panels of typeId 11 without a usable
\* name (no name, an empty name, fewer than three items, no item list) and a
\* panel of another typeId that holds a Kellogg program.
TypePanels ==
    { ClassificationPanel(Null, <<"S", "e", "m", "i", "n", "a", "r">>, <<"K", "e", "l", "l", "o", "g", "g", " ", "E", "x", "e", "c", "u", "t", "i", "v", "e", " ", "E", "d", "u", "c", "a", "t", "i", "o", "n", " ", "P", "r", "o", "g", "r", "a", "m", "s">>, Null),
      ClassificationPanel(Null, <<"L", "e", "c", "t", "u", "r", "e">>, <<"K", "e", "l", "l", "o", "g", "g", " ", "E", "x", "e", "c", "u", "t", "i", "v", "e", " ", "M", "B", "A", " ", "P", "r", "o", "g", "r", "a", "m">>, <<"R", "E", "S", " ", "C", "M", "C", ",", " ", "K", "S", "M">>),
      ClassificationPanel(Null, <<"M", "e", "e", "t", "i", "n", "g">>, <<"F", "i", "n", "a", "n", "c", "e">>, <<"R", "E", "S", " ", "C", "M", "C", ",", " ", "K", "S", "M">>),
      ClassificationPanel(Null, <<"L", "e", "c", "t", "u", "r", "e">>, <<"F", "i", "n", "a", "n", "c", "e">>, Null),
      ClassificationPanel(Null, Null, <<"F", "i", "n", "a", "n", "c", "e">>, Null),
      ClassificationPanel(Null, <<>>, Null, <<"R", "E", "S", " ", "K", "S", "M">>),
      Panel(11, <<Leaf(<<"E", "v", "e", "n", "t">>), Leaf(<<"F", "i", "n", "a", "n", "c", "e", " ", "I">>)>>),
      [typeId |-> 11, itemName |-> Null, item |-> None],
      [ClassificationPanel(Null, <<"E", "x", "a", "m">>, <<"K", "e", "l", "l", "o", "g", "g", " ", "E", "x", "e", "c", "u", "t", "i", "v", "e", " ", "M", "B", "A", " ", "P", "r", "o", "g", "r", "a", "m">>, Null) EXCEPT !.typeId = 12] }

\* The most panels of a payload.
MaxPanels == 2

\* The raw items getEventType is applied to: without a payload, without a
\* definition, without a panel list, and with every list of panels.
TypeInputs(longest) ==
    { RawItem(6700, 7900, 440, <<"F", "i", "n", "a", "n", "c", "e", " ", "I">>, <<"K", "G", "H", "1", "1", "1", "0", " ", "(", "7", "0", ")">>, Day1, Hours(9, 0), Hours(10, 0), details) :
        details \in {None, Some([defn |-> None, occur |-> None]),
                     Some([defn |-> Some([panel |-> None]), occur |-> None])}
                    \cup {Details(panels) :
                            panels \in UNION { [1..n -> TypePanels] : n \in 0..longest }} }

InitEventType ==
    /\ stageInput \in TypeInputs(MaxPanels)
    /\ stageOutput = <<>>
    /\ stageAgain = <<>>
    /\ now = PipelineClock
    /\ IdIdle
    /\ TaskIdle
    /\ PipeIdle
    /\ SaveIdle
    /\ FetchIdle
    /\ pc = "ready"

GetEventType ==
    /\ pc = "ready"
    /\ pc' = "getEventType"
    /\ stageOutput' = getEventType(stageInput)
    /\ UNCHANGED <<fetchVars, idVars, taskVars, pipeVars, stageInput, stageAgain, saveVars, now>>

NextEventType == GetEventType

SpecEventType == InitEventType /\ [][NextEventType]_vars

\* The name at item[outer].item[0] of the panel, Null when a level is missing.
NestedName(panel, outer) ==
    IF panel.item = None THEN Null
    ELSE IF Len(panel.item[1]) < outer + 1 THEN Null
    ELSE IF panel.item[1][outer + 1].item = None THEN Null
    ELSE IF panel.item[1][outer + 1].item[1] = <<>> THEN Null
    ELSE panel.item[1][outer + 1].item[1][1].itemName

\* The name of item[2] of the panel, Null when it is missing.
ThirdName(panel) ==
    IF panel.item = None THEN Null
    ELSE IF Len(panel.item[1]) < 3 THEN Null
    ELSE panel.item[1][3].itemName

IsKelloggProgram(panel) ==
    NestedName(panel, 6) \in {<<"K", "e", "l", "l", "o", "g", "g", " ", "E", "x", "e", "c", "u", "t", "i", "v", "e", " ", "E", "d", "u", "c", "a", "t", "i", "o", "n", " ", "P", "r", "o", "g", "r", "a", "m", "s">>, <<"K", "e", "l", "l", "o", "g", "g", " ", "E", "x", "e", "c", "u", "t", "i", "v", "e", " ", "M", "B", "A", " ", "P", "r", "o", "g", "r", "a", "m">>}

IsCMCDepartment(panel) == NestedName(panel, 8) = <<"R", "E", "S", " ", "C", "M", "C", ",", " ", "K", "S", "M">>

\* The panel is of typeId 11 and yields a result.
Yields(panel) ==
    /\ panel.typeId = 11
    /\ \/ IsKelloggProgram(panel)
       \/ IsCMCDepartment(panel)
       \/ ThirdName(panel) \notin {Null, <<>>}

\* The panel list of the item as written, empty when a level is missing.
PanelList(data) ==
    IF data.itemDetails = None \/ data.itemDetails[1].defn = None
       \/ data.itemDetails[1].defn[1].panel = None
    THEN <<>>
    ELSE data.itemDetails[1].defn[1].panel[1]

\* C27: getEventType returns, for the first panel of typeId 11 that yields a
\* result, "KEC" when the name at item[6].item[0] is one of the two Kellogg
\* programs, else "CMC" when the name at item[8].item[0] is "RES CMC, KSM",
\* else the name of item[2]; panels of typeId 11 that yield nothing are
\* passed over, and the result is null when no panel yields one.
C27_EventTypeOverridesThenFallback ==
    pc = "getEventType" =>
        LET panels   == PanelList(stageInput)
            yielding == {p \in 1..Len(panels) : Yields(panels[p])}
        IN  IF yielding = {} THEN stageOutput = Null
            ELSE LET panel == panels[First(yielding)]
                 IN  stageOutput =
                         IF IsKelloggProgram(panel) THEN <<"K", "E", "C">>
                         ELSE IF IsCMCDepartment(panel) THEN <<"C", "M", "C">>
                         ELSE ThirdName(panel)

\* A typeId 11 panel without a usable name, then the Executive MBA panel
\* that also names the CMC department and a type: the result is "KEC".
C27_Witness ==
    /\ pc = "getEventType"
    /\ Len(PanelList(stageInput)) = 2
    /\ PanelList(stageInput)[1].typeId = 11
    /\ ~Yields(PanelList(stageInput)[1])
    /\ IsKelloggProgram(PanelList(stageInput)[2])
    /\ IsCMCDepartment(PanelList(stageInput)[2])
    /\ ThirdName(PanelList(stageInput)[2]) = <<"L", "e", "c", "t", "u", "r", "e">>
    /\ stageOutput = <<"K", "E", "C">>

(***************************************************************************)
(* The Resource Extractor on its own: parseEventResources applied to a raw *)
(* item.                                                                   *)
(***************************************************************************)

ResourceA == [itemName |-> <<"K", "S", "M", "-", "K", "G", "H", "-", "V", "I", "D", "E", "O", "-", "R", "E", "C", "O", "R", "D", "I", "N", "G", "-", "A">>, quantity |-> 1, instruction |-> Null, itemId |-> 31]

ResourceB == [itemName |-> <<"K", "S", "M", "-", "K", "G", "H", "-", "A", "V", "-", "L", "a", "p", "t", "o", "p">>, quantity |-> 2, instruction |-> <<"H", "D", "M", "I">>, itemId |-> 32]

\* Reservations: two of the event's day with resources, one of that day
\* without a res list, one of the day before, and one without a startDt.
Reservations ==
    { [startDt |-> <<"2", "0", "2", "5", "-", "0", "7", "-", "1", "5", "T", "0", "9", ":", "0", "0">>, res |-> Some(<<ResourceA, ResourceB>>)],
      [startDt |-> <<"2", "0", "2", "5", "-", "0", "7", "-", "1", "5", "T", "1", "3", ":", "0", "0">>, res |-> Some(<<ResourceB>>)],
      [startDt |-> <<"2", "0", "2", "5", "-", "0", "7", "-", "1", "5", "T", "1", "7", ":", "0", "0">>, res |-> None],
      [startDt |-> <<"2", "0", "2", "5", "-", "0", "7", "-", "1", "4", "T", "0", "9", ":", "0", "0">>, res |-> Some(<<ResourceA>>)],
      [startDt |-> Null, res |-> Some(<<ResourceA>>)] }

\* The most reservations of a prof entry.
MaxRsv == 2

\* The prof entries: without an rsv list, and with every list of reservations.
ProfEntries(longest) ==
    {[rsv |-> None]}
        \cup {[rsv |-> Some(list)] : list \in UNION { [1..n -> Reservations] : n \in 0..longest }}

\* The payloads: none, one without occurrences, one without prof entries, and
\* those with no, one or two prof entries.
ResourceDetails(longest) ==
    {None, Some([defn |-> None, occur |-> None]),
     Some([defn |-> None, occur |-> Some([prof |-> None])])}
        \cup {Some([defn |-> None, occur |-> Some([prof |-> Some(profArray)])]) :
                profArray \in {<<>>} \cup {<<a>> : a \in ProfEntries(longest)}
                                \cup {<<a, b>> : a, b \in ProfEntries(longest)}}

\* The raw items parseEventResources is applied to: with and without a date.
ResourceInputs(longest) ==
    { RawItem(6800, 8000, 440, <<"F", "i", "n", "a", "n", "c", "e", " ", "I">>, <<"K", "G", "H", "1", "1", "1", "0", " ", "(", "7", "0", ")">>, date, Hours(9, 0), Hours(10, 0), details) :
        date \in {Day1, Null}, details \in ResourceDetails(longest) }

InitResources ==
    /\ stageInput \in ResourceInputs(MaxRsv)
    /\ stageOutput = <<>>
    /\ stageAgain = <<>>
    /\ now = PipelineClock
    /\ IdIdle
    /\ TaskIdle
    /\ PipeIdle
    /\ SaveIdle
    /\ FetchIdle
    /\ pc = "ready"

\* The call returns its list or raises.
ParseEventResources ==
    /\ pc = "ready"
    /\ pc' = "parseEventResources"
    /\ stageOutput' =
           IF parseEventResourcesThrows(stageInput)
           THEN [threw |-> TRUE, returned |-> <<>>]
           ELSE [threw |-> FALSE, returned |-> parseEventResources(stageInput)]
    /\ UNCHANGED <<fetchVars, idVars, taskVars, pipeVars, stageInput, stageAgain, saveVars, now>>

NextResources == ParseEventResources

SpecResources == InitResources /\ [][NextResources]_vars

\* The prof entries of the item as written, empty when a level is missing.
ProfList(event) ==
    IF event.itemDetails = None \/ event.itemDetails[1].occur = None
       \/ event.itemDetails[1].occur[1].prof = None
    THEN <<>>
    ELSE event.itemDetails[1].occur[1].prof[1]

\* The reservations of the first n prof entries, in source order.
RECURSIVE FlatReservations(_, _)
FlatReservations(profList, n) ==
    IF n = 0 THEN <<>>
    ELSE FlatReservations(profList, n - 1)
             \o (IF profList[n].rsv = None THEN <<>> ELSE profList[n].rsv[1])

\* The date portion of a timestamp: what stands before its "T".
DatePortion(stamp) == SubSeq(stamp, 1, 10)

\* The reservations whose startDt is on the event's date.
OnEventDate(reservations, event) ==
    {p \in 1..Len(reservations) :
        /\ reservations[p].startDt # Null
        /\ event.subject_item_date # Null
        /\ DatePortion(reservations[p].startDt) = DatePortion(event.subject_item_date)}

\* C28 as stated: parseEventResources returns the res list of the first
\* reservation, in the source order of all prof entries, whose startDt is on
\* the event's date, projected to (itemName, quantity, instruction); it
\* returns the empty list when there is no prof entry, no reservation, no
\* match, or when that first match has no res list.
C28_FirstMatchingReservation ==
    pc = "parseEventResources" =>
        LET reservations == FlatReservations(ProfList(stageInput), Len(ProfList(stageInput)))
            matches      == OnEventDate(reservations, stageInput)
        IN  /\ ~stageOutput.threw
            /\ stageOutput.returned =
                   IF matches = {} THEN <<>>
                   ELSE IF reservations[First(matches)].res = None THEN <<>>
                   ELSE [p \in 1..Len(reservations[First(matches)].res[1]) |->
                            [itemName    |-> reservations[First(matches)].res[1][p].itemName,
                             quantity    |-> reservations[First(matches)].res[1][p].quantity,
                             instruction |-> reservations[First(matches)].res[1][p].instruction]]

(***************************************************************************)
(* The time conversion on its own: toTimeStrings applied to two decimal    *)
(* hours of one day, counted in units of 1/HourGrid hour.                  *)
(***************************************************************************)

\* The decimal hours h with 0 <= h < 24, in grid units.
DayUnits == 0..((24 * HourGrid) - 1)

\* The last grid value of the hour of the value.
EndOfHour(units) == (units - (units % HourGrid)) + (HourGrid - 1)

InitTimes ==
    /\ \E start \in DayUnits : \E end \in {start, EndOfHour(start)} :
           stageInput = <<start, end>>
    /\ stageOutput = <<>>
    /\ stageAgain = <<>>
    /\ now = PipelineClock
    /\ IdIdle
    /\ TaskIdle
    /\ PipeIdle
    /\ SaveIdle
    /\ FetchIdle
    /\ pc = "ready"

ToTimeStrings ==
    /\ pc = "ready"
    /\ pc' = "toTimeStrings"
    /\ stageOutput' = toTimeStrings(stageInput[1], stageInput[2])
    /\ UNCHANGED <<fetchVars, idVars, taskVars, pipeVars, stageInput, stageAgain, saveVars, now>>

NextTimes == ToTimeStrings

SpecTimes == InitTimes /\ [][NextTimes]_vars

\* The two digits of a number below 100.
TwoDigits(n) ==
    << <<"0", "1", "2", "3", "4", "5", "6", "7", "8", "9">>[(n \div 10) + 1],
       <<"0", "1", "2", "3", "4", "5", "6", "7", "8", "9">>[(n % 10) + 1] >>

\* The whole minutes nearest to the fraction of the hour of the value: one,
\* or two when the fraction lies midway.
NearestMinutes(units) ==
    {m \in 0..60 :
        \A n \in 0..60 :
            LET away(k) == IF 60 * (units % HourGrid) >= k * HourGrid
                           THEN (60 * (units % HourGrid)) - (k * HourGrid)
                           ELSE (k * HourGrid) - (60 * (units % HourGrid))
            IN  away(m) <= away(n)}

\* The valid clock times of the value: HH the whole hours, in 00..23, MM a
\* nearest minute in 00..59, SS 00.
ClockTimes(units) ==
    { TwoDigits(units \div HourGrid) \o <<":">> \o TwoDigits(m) \o <<":", "0", "0">> :
        m \in NearestMinutes(units) \cap (0..59) }

\* C29 as stated: for every decimal hour of the day toTimeStrings yields a
\* valid clock time HH:MM:00, HH the whole hours and MM the fraction times 60
\* rounded to the nearest integer, within 00..59.
C29_ValidClockTimes ==
    pc = "toTimeStrings" =>
        /\ stageOutput.startTimeStr \in ClockTimes(stageInput[1])
        /\ stageOutput.endTimeStr \in ClockTimes(stageInput[2])

\* The raw item of the Event has a panel list.
HasPanelList(event) ==
    /\ event.raw.itemDetails # None
    /\ event.raw.itemDetails[1].defn # None
    /\ event.raw.itemDetails[1].defn[1].panel # None

\* C30: on the Events the assembler and the merger produce,
\* removeKECNoAcademicEvents does not raise: every Event of event_type "KEC"
\* has the raw panel list the check indexes, and an Event of another type is
\* kept without its raw panel being read, also when its payload is null or
\* has a definition without a panel list.
C30_KECCheckNeverRaises ==
    ( /\ pc = "transformRawEventsToEvents"
      /\ IsArray(rawData)
      /\ ~AssembleThrows(run.filteredData) )
    => /\ ~run.threw
       /\ \A p \in 1..Len(run.mergedEvents) :
              IF run.mergedEvents[p].event_type = <<"K", "E", "C">>
              THEN HasPanelList(run.mergedEvents[p])
              ELSE Holds(run.returned, run.mergedEvents[p])

\* An Event whose payload has a definition without a panel list, beside an
\* executive-education reception: the run does not raise, the first is
\* returned and the reception is discarded.
C30_Witness ==
    /\ pc = "transformRawEventsToEvents"
    /\ IsArray(rawData)
    /\ Len(run.mergedEvents) = 2
    /\ run.mergedEvents[1].raw.itemDetails = Some([defn |-> Some([panel |-> None]), occur |-> None])
    /\ run.mergedEvents[1].event_type = Null
    /\ run.mergedEvents[2].event_type = <<"K", "E", "C">>
    /\ ~run.threw
    /\ run.returned = <<run.mergedEvents[1]>>

====
